---- MODULE Spec2Model ----
(***************************************************************************)
(* Binary Trading AI agent: the validate -> retrain feedback loop of the   *)
(* background agent (TradingAIAgent, Validator, Trainer, NeuralNetwork,    *)
(* Database) and the EnsemblePredictor's combiner. part_001 is            *)
(* ml/neural-network.js, part_002 ml/ensemble-predictor.js, part_003       *)
(* similarity-matcher.js, feature-extractor.js and config.js, part_004     *)
(* (from line 320) background.js.                                          *)
(*                                                                         *)
(* JavaScript runs each piece of code between two awaits to completion, so *)
(* every action below is one such piece: it starts where an awaited result *)
(* arrives and ends where the next await is issued.                        *)
(* Times are whole seconds: Date.now(), the timestamps and the configured   *)
(* delays, all multiples of 1000 ms, divided by 1000.                      *)
(***************************************************************************)
EXTENDS Integers, Naturals, Sequences, FiniteSets, TLC

(* ------------------------------ bounds --------------------------------- *)
\* async invocations (timer callbacks, message handlers, API calls) in flight
MaxTasks == 2
\* stored predictions that are still unvalidated when the model starts
NumPreds == 1
\* clock advances
MaxTicks == 1
\* parameter updates one model.fit applies (epochs x batches), each followed
\* by a yield to the event loop
FitSteps == 2
\* fits that may be started
MaxRuns == 2
\* prices are 1..MaxPrice
MaxPrice == 5
\* candle windows have up to MaxWindow candles, the newest TailLen of any shape
MaxWindow == 21
TailLen == 3
\* predictFromSimilarPatterns gets up to MaxMatches matches
MaxMatches == 3
\* splitData gets up to MaxSamples (input, target) pairs
MaxSamples == 4
\* the prediction store holds up to MaxBook older predictions at the start
MaxBook == 4
\* predictions that may be stored while the model runs
MaxStored == 21
\* events that call TradingAIAgent.init
MaxInits == 3

(* ------------------------- program constants --------------------------- *)
\* CONFIG.VALIDATION_DELAY, 300000 ms
VALIDATION_DELAY == 300
\* the candle window of validatePrediction, 60000 ms to either side
CandleWindow == 60
RETRAIN_THRESHOLD == 50
MinTrainingSamples == 50
LookbackDays == 30
\* 24 * 60 * 60 * 1000 ms
DayLength == 86400

Tasks == 1..MaxTasks
PredIds == 1..NumPreds

\* Date.now() when the model starts; the stored predictions are older
T0 == LookbackDays * DayLength
Times == {T0 + k * CandleWindow : k \in 0..MaxTicks}
\* closes a candle can carry
Closes == {1, 2}
\* timestamps of the candles the store may hold: the minute of each stored
\* prediction, and the minutes the clock reaches
PredTime(p) == T0 - VALIDATION_DELAY + (p - 1) * CandleWindow
OldTimes == {PredTime(p) : p \in PredIds}
CandleTimes == OldTimes \cup Times
Candles == [timestamp : CandleTimes, close : Closes]

VARIABLES
    now,        \* Date.now()
    candles,    \* 'candles' object store (keyPath timestamp)
    preds,      \* 'predictions' object store: the records not yet validated at start
    archived,   \* 'predictions' object store: number of older validated records
    score,      \* 'patternScores' object store: the record of the signature
    nn,         \* NeuralNetwork instance
    saved,      \* model store (indexeddb://trading-ai-model): saved parameters
    trainer,    \* Trainer instance
    task,       \* the async invocations in flight and where each is suspended
    predictObs, \* last NeuralNetwork.predict call: what it read
    retrainLog, \* last Trainer.retrain call that returned: what it did
    trainLog,   \* last NeuralNetwork.train call that returned: what it did
    ens,        \* last EnsemblePredictor.combinePredictions call: inputs, output
    fx,         \* last FeatureExtractor.extractFeatures call: window, result
    pd,         \* last PatternDetector rule call: rule, candles, result
    sim,        \* last SimilarityMatcher.calculateSimilarity call: inputs, result
    hist,       \* last SimilarityMatcher.predictFromSimilarPatterns call
    split,      \* two NeuralNetwork.splitData calls: data, results
    restore,    \* the last saveModel and the loadModel after a restart
    risk,       \* 'predictions' and 'stats' object stores as the RiskManager
                \* reads them, and the last handleCandlesUpdate call
    boot        \* TradingAIAgent: initialized, the init calls in flight, the
                \* timers started and the components constructed

fxVars == <<fx, pd, sim, hist>>
appVars == <<split, restore, risk, boot>>
pureVars == <<fxVars, appVars>>
agentVars == <<now, candles, preds, archived, score, nn, saved, trainer, task,
               predictObs, retrainLog, trainLog>>
vars == <<now, candles, preds, archived, score, nn, saved, trainer, task,
          predictObs, retrainLog, trainLog, ens, pureVars>>

(* ------------------------------ Database ------------------------------- *)
\* database.getCandles(startTime, endTime): IDBKeyRange.bound is inclusive;
\* the result is ordered by timestamp
GetCandlesAll(lo, hi) == candles
GetCandles(lo, hi) == {c \in candles : lo <= c.timestamp /\ c.timestamp <= hi}

\* database.storeCandles: put, the latest write of a timestamp wins
PutCandle(c) == {d \in candles : d.timestamp # c.timestamp} \cup {c}

\* database.getUnvalidatedPredictions(): index 'validated' = false, in id order
RECURSIVE IdSeq(_)
IdSeq(S) ==
    IF S = {} THEN <<>>
    ELSE LET m == CHOOSE x \in S : \A y \in S : x <= y
         IN  <<m>> \o IdSeq(S \ {m})
GetUnvalidatedPredictions == IdSeq({p \in PredIds : ~preds[p].validated})

\* database.getValidatedPredictions(days): index 'validated' = true, newer than
\* the cutoff. The archived records were stored inside the lookback.
CutoffTime(days) == now - days * DayLength
ValidatedTracked(days) ==
    {p \in PredIds : preds[p].validated /\ preds[p].timestamp >= CutoffTime(days)}
GetValidatedCount(days) == archived + Cardinality(ValidatedTracked(days))

(* --------------------------- initial state ----------------------------- *)
NoScore == [exists |-> FALSE, successCount |-> 0, failureCount |-> 0]

IdleTask ==
    [kind |-> "none", pc |-> "idle", todo |-> <<>>, vnow |-> 0, count |-> 0,
     cur |-> 0, close |-> 0, wasCorrect |-> "null", outcome |-> "null",
     vts |-> 0, newScore |-> NoScore,
     step |-> 0, base |-> 0, hist |-> "none", w0 |-> 0, v0 |-> 0, ltt0 |-> 0]

NoRetrain ==
    [ret |-> "none", busy |-> FALSE, failed |-> "none", lttChanged |-> FALSE,
     paramsChanged |-> FALSE, versionChanged |-> FALSE, flagCleared |-> FALSE]

NoPredict == [made |-> FALSE, w |-> 0, during |-> FALSE, base |-> 0]

\* part_004:506-518  storePrediction: the record as first written
NewPrediction(ts, dir) ==
    [timestamp |-> ts, prediction |-> dir, validated |-> FALSE,
     wasCorrect |-> "null", actualOutcome |-> "null", validationTimestamp |-> 0]

\* new NeuralNetwork(): no model, not training, version 1
NewNeuralNetwork ==
    [model |-> FALSE, isTraining |-> FALSE, modelVersion |-> 1, weights |-> 0]

\* new Trainer(database, neuralNetwork)
NewTrainer == [isTraining |-> FALSE, lastTrainingTime |-> 0]

(* ------------------------------ Validator ------------------------------ *)
Abs(x) == IF x < 0 THEN -x ELSE x

\* validator.js:57-61  candles.reduce keeps the first candle, in timestamp
\* order, whose distance to validationTime is smallest
ClosestCandle(cs, t) ==
    CHOOSE c \in cs :
        \A d \in cs :
            \/ Abs(c.timestamp - t) < Abs(d.timestamp - t)
            \/ Abs(c.timestamp - t) = Abs(d.timestamp - t)
               /\ c.timestamp <= d.timestamp

\* validator.js:74  originalCandles[originalCandles.length - 1]
LastCandle(cs) == CHOOSE c \in cs : \A d \in cs : d.timestamp <= c.timestamp

\* validator.js:23-33  the for loop of validatePredictions from its next
\* element on: predictions younger than the delay are passed over, the first
\* old enough is handed to validatePrediction, which awaits getCandles; after
\* the last element validatePredictions returns and the periodic task awaits
\* trainer.shouldRetrain()
RECURSIVE LoopNext(_)
LoopNext(r) ==
    IF r.todo = <<>>
    THEN [r EXCEPT !.pc = "s_data", !.cur = 0]
    ELSE LET p == Head(r.todo)
         IN  IF r.vnow - preds[p].timestamp >= VALIDATION_DELAY
             THEN [r EXCEPT !.pc = "v_c1", !.cur = p, !.todo = Tail(r.todo)]
             ELSE LoopNext([r EXCEPT !.todo = Tail(r.todo)])

\* validatePrediction returned: its locals are dropped, the loop goes on
Returned(r, validated) ==
    LoopNext([r EXCEPT !.count = IF validated THEN @ + 1 ELSE @,
                       !.close = 0, !.wasCorrect = "null", !.outcome = "null",
                       !.vts = 0, !.newScore = NoScore])

\* part_004:394-396  the validation timer fires: the callback calls
\* validator.validatePredictions(), which awaits getUnvalidatedPredictions()
TimerTick(t) ==
    /\ task[t].pc = "idle"
    /\ task' = [task EXCEPT ![t] = [IdleTask EXCEPT !.kind = "cycle", !.pc = "v_list"]]
    /\ UNCHANGED <<now, candles, preds, archived, score, nn, saved, trainer,
                   predictObs, retrainLog, trainLog, ens, pureVars>>

\* validator.js:17-33  the unvalidated predictions arrive
VList(t) ==
    /\ task[t].pc = "v_list"
    /\ task' = [task EXCEPT ![t] =
                  LoopNext([@ EXCEPT !.todo = GetUnvalidatedPredictions,
                                     !.vnow = now])]
    /\ UNCHANGED <<now, candles, preds, archived, score, nn, saved, trainer,
                   predictObs, retrainLog, trainLog, ens, pureVars>>

\* validator.js:45-67  the candles around predictionTime + delay arrive
VCandles1(t) ==
    /\ task[t].pc = "v_c1"
    /\ LET r == task[t]
           validationTime == preds[r.cur].timestamp + VALIDATION_DELAY
           cs == GetCandles(validationTime - CandleWindow,
                            validationTime + CandleWindow)
       IN  task' = [task EXCEPT ![t] =
                IF cs = {}
                THEN Returned(r, FALSE)
                ELSE [r EXCEPT !.pc = "v_c2",
                               !.close = ClosestCandle(cs, validationTime).close]]
    /\ UNCHANGED <<now, candles, preds, archived, score, nn, saved, trainer,
                   predictObs, retrainLog, trainLog, ens, pureVars>>

\* validator.js:64-87  the candles around predictionTime arrive; the outcome is
\* decided and database.updatePrediction is called
VCandles2(t) ==
    /\ task[t].pc = "v_c2"
    /\ LET r == task[t]
           ts == preds[r.cur].timestamp
           cs == GetCandles(ts - CandleWindow, ts + CandleWindow)
           actualOutcome ==
               IF r.close > LastCandle(cs).close THEN "UP" ELSE "DOWN"
       IN  task' = [task EXCEPT ![t] =
                IF cs = {}
                THEN Returned(r, FALSE)
                ELSE [r EXCEPT
                        !.pc = "v_upd",
                        !.outcome = actualOutcome,
                        !.wasCorrect =
                            IF actualOutcome = preds[r.cur].prediction
                            THEN "true" ELSE "false",
                        !.vts = now]]
    /\ UNCHANGED <<now, candles, preds, archived, score, nn, saved, trainer,
                   predictObs, retrainLog, trainLog, ens, pureVars>>

\* database.js:214-223, validator.js:89-92  updatePrediction: db.get delivers
\* the stored record and db.put writes it merged with the updates, which
\* replace every validation field (the other fields never change, so the
\* record is the same whenever it was read); the stored features array is
\* truthy, so database.updatePatternScore is called with the signature, and
\* awaits db.get
VUpdate(t) ==
    /\ task[t].pc = "v_upd"
    /\ LET r == task[t]
       IN  /\ preds' = [preds EXCEPT ![r.cur] =
                          [@ EXCEPT !.validated = TRUE,
                                    !.wasCorrect = r.wasCorrect,
                                    !.actualOutcome = r.outcome,
                                    !.validationTimestamp = r.vts]]
           /\ task' = [task EXCEPT ![t].pc = "v_sget"]
    /\ UNCHANGED <<now, candles, archived, score, nn, saved, trainer,
                   predictObs, retrainLog, trainLog, ens, pureVars>>

\* database.js:283-306  updatePatternScore: db.get delivers the stored score
\* (a fresh one when there is none), one counter is incremented, and the
\* record is handed to db.put
VScoreGet(t) ==
    /\ task[t].pc = "v_sget"
    /\ LET r == task[t]
       IN  task' = [task EXCEPT ![t] =
                [r EXCEPT !.pc = "v_sput",
                          !.newScore =
                              [exists |-> TRUE,
                               successCount |->
                                   IF r.wasCorrect = "true"
                                   THEN score.successCount + 1
                                   ELSE score.successCount,
                               failureCount |->
                                   IF r.wasCorrect = "true"
                                   THEN score.failureCount
                                   ELSE score.failureCount + 1]]]
    /\ UNCHANGED <<now, candles, preds, archived, score, nn, saved, trainer,
                   predictObs, retrainLog, trainLog, ens, pureVars>>

\* database.js:306-308, validator.js:95-101  db.put writes the score;
\* validatePrediction returns true
VScorePut(t) ==
    /\ task[t].pc = "v_sput"
    /\ score' = task[t].newScore
    /\ task' = [task EXCEPT ![t] = Returned(@, TRUE)]
    /\ UNCHANGED <<now, candles, preds, archived, nn, saved, trainer,
                   predictObs, retrainLog, trainLog, ens, pureVars>>

(* ---------------------------- NeuralNetwork ---------------------------- *)
\* part_001:85  the guard of train
NoGuard == FALSE
NNBusy == nn.isTraining

\* the model.fit calls in flight
Fitting == {t \in Tasks : task[t].pc = "fit"}

\* a fit may still be started within the bound on the parameter updates
MayFit == nn.weights + FitSteps <= MaxRuns * FitSteps

\* what a train call that has returned did, nn2 and fits being the instance
\* and the number of fits in flight after it
TrainReturned(ret, busy, v0, nn2, fits) ==
    [ret |-> ret, busy |-> busy, versionChanged |-> nn2.modelVersion # v0,
     flagAfter |-> nn2.isTraining, fits |-> fits]

\* part_001:81-90  train up to its await: the model is created when
\* there is none; a call during a training run leaves the flag alone (and
\* returns null), any other sets it
TrainCallNN ==
    IF NNBusy
    THEN [nn EXCEPT !.model = TRUE]
    ELSE [nn EXCEPT !.model = TRUE, !.isTraining = TRUE]

\* part_001:145-148  model.fit has resolved: the flag is cleared and
\* the version incremented
TrainDoneNN == [nn EXCEPT !.isTraining = FALSE, !.modelVersion = @ + 1]

\* part_001:149-153  model.fit (or a tensor conversion) threw
TrainFailedNN == [nn EXCEPT !.isTraining = FALSE]

\* part_001:159-187  predict: model.predict reads the parameters as
\* they are at the call
Predict ==
    /\ nn.model
    /\ predictObs' =
         [made |-> TRUE, w |-> nn.weights, during |-> Fitting # {},
          base |-> IF Fitting = {} THEN nn.weights
                   ELSE task[CHOOSE t \in Fitting : TRUE].base]
    /\ UNCHANGED <<now, candles, preds, archived, score, nn, saved, trainer,
                   task, retrainLog, trainLog, ens, pureVars>>

\* a client of the exported class calls train (part_001:80-128)
TrainClient(t) ==
    /\ task[t].pc = "idle"
    /\ NNBusy \/ MayFit
    /\ nn' = TrainCallNN
    /\ IF NNBusy
       THEN /\ trainLog' = TrainReturned("null", TRUE, nn.modelVersion, nn',
                                         Cardinality(Fitting))
            /\ task' = task
       ELSE /\ trainLog' = trainLog
            /\ task' = [task EXCEPT ![t] =
                          [IdleTask EXCEPT !.kind = "train", !.pc = "fit",
                                           !.base = nn.weights,
                                           !.v0 = nn.modelVersion]]
    /\ UNCHANGED <<now, candles, preds, archived, score, saved, trainer,
                   predictObs, retrainLog, ens, pureVars>>

\* part_001:128-135  model.fit applies one more parameter update to
\* this.model, in place, and yields to the event loop
FitStep(t) ==
    /\ task[t].pc = "fit"
    /\ task[t].step < FitSteps
    /\ nn' = [nn EXCEPT !.weights = @ + 1]
    /\ task' = [task EXCEPT ![t].step = @ + 1]
    /\ UNCHANGED <<now, candles, preds, archived, score, saved, trainer,
                   predictObs, retrainLog, trainLog, ens, pureVars>>

(* ------------------------------- Trainer ------------------------------- *)
\* trainer.js:36  the guard of retrain
NoRetrainGuard == FALSE
TrainerBusy == trainer.isTraining

Retraining == {t \in Tasks : task[t].pc \in {"r_data", "fit", "r_eval", "r_save"}
                             /\ task[t].kind \in {"cycle", "force"}}

\* what a retrain call that has returned did, from the values at its call
\* (r) and the instances after its return
RetrainReturned(r, ret, busy, failed, trainer2, nn2) ==
    [ret |-> ret, busy |-> busy, failed |-> failed,
     lttChanged |-> trainer2.lastTrainingTime # r.ltt0,
     paramsChanged |-> nn2.weights # r.w0,
     versionChanged |-> nn2.modelVersion # r.v0,
     flagCleared |-> ~trainer2.isTraining]

\* the values a retrain call finds
AtCall(r) ==
    [r EXCEPT !.w0 = nn.weights, !.v0 = nn.modelVersion,
              !.ltt0 = trainer.lastTrainingTime]

\* trainer.js:35-46  retrain is called by task t (kind k): during a retrain it
\* returns false; otherwise it sets the flag and awaits
\* getValidatedPredictions(30). Its caller does nothing more with the result
\* than answer the message (part_004:402, 607-608).
RetrainCall(t, k) ==
    IF TrainerBusy
    THEN /\ retrainLog' = RetrainReturned(AtCall(IdleTask), "false", TRUE,
                                          "none", trainer, nn)
         /\ task' = [task EXCEPT ![t] = IdleTask]
         /\ trainer' = trainer
    ELSE /\ retrainLog' = retrainLog
         /\ task' = [task EXCEPT ![t] =
                       AtCall([IdleTask EXCEPT !.kind = k, !.pc = "r_data"])]
         /\ trainer' = [trainer EXCEPT !.isTraining = TRUE]

\* trainer.js:20-30, part_004:399-403  shouldRetrain: the validated
\* predictions arrive; those validated after lastTrainingTime are counted (the
\* archived ones were validated before the model starts); at the threshold
\* the periodic task calls retrain, below it the task is over
AllValidated == GetValidatedCount(LookbackDays)
NewValidated ==
    (IF trainer.lastTrainingTime < T0 THEN archived ELSE 0)
    + Cardinality({p \in ValidatedTracked(LookbackDays) :
                     preds[p].validationTimestamp > trainer.lastTrainingTime})

ShouldRetrain(t) ==
    /\ task[t].pc = "s_data"
    /\ IF NewValidated >= RETRAIN_THRESHOLD
       THEN RetrainCall(t, "cycle")
       ELSE /\ task' = [task EXCEPT ![t] = IdleTask]
            /\ UNCHANGED <<trainer, retrainLog>>
    /\ UNCHANGED <<now, candles, preds, archived, score, nn, saved,
                   predictObs, trainLog, ens, pureVars>>

\* part_004:606-608  a FORCE_RETRAIN message arrives
ForceRetrain(t) ==
    /\ task[t].pc = "idle"
    /\ RetrainCall(t, "force")
    /\ UNCHANGED <<now, candles, preds, archived, score, nn, saved,
                   predictObs, trainLog, ens, pureVars>>

\* trainer.js:46-69  the validated predictions arrive: with fewer than 50
\* retrain gives up; otherwise the pairs are prepared (every stored record has
\* its features array) and split, and neuralNetwork.train is called. When
\* train returns null at once, retrain gives up as well.
\* trainer.js:48  predictions.length < 50; prepareTrainingData builds one
\* pair from each record, as every record of the validated index is validated
\* and storePrediction (part_004:511) writes a features array with each; an
\* empty result (trainer.js:57) is the only other refusal
NoTrainingData(n) == n = 0
InsufficientData(n) == n < MinTrainingSamples

RetrainData(t) ==
    /\ task[t].pc = "r_data"
    /\ LET r == task[t]
           enough == ~InsufficientData(GetValidatedCount(LookbackDays))
           abandoned == [trainer EXCEPT !.isTraining = FALSE]
       IN  IF ~enough
           THEN /\ trainer' = abandoned
                /\ retrainLog' = RetrainReturned(r, "false", FALSE, "data",
                                                 abandoned, nn)
                /\ task' = [task EXCEPT ![t] = IdleTask]
                /\ UNCHANGED <<nn, trainLog>>
           ELSE /\ NNBusy \/ MayFit
                /\ nn' = TrainCallNN
                /\ IF NNBusy
                   THEN /\ trainer' = abandoned
                        /\ trainLog' = TrainReturned("null", TRUE,
                                           nn.modelVersion, nn',
                                           Cardinality(Fitting))
                        /\ retrainLog' = RetrainReturned(r, "false", FALSE,
                                             "train", abandoned, nn')
                        /\ task' = [task EXCEPT ![t] = IdleTask]
                   ELSE /\ task' = [task EXCEPT ![t] =
                                      [r EXCEPT !.pc = "fit", !.step = 0,
                                                !.base = nn.weights]]
                        /\ UNCHANGED <<trainer, trainLog, retrainLog>>
    /\ UNCHANGED <<now, candles, preds, archived, score, saved, predictObs, ens, pureVars>>

\* part_001:128-153, trainer.js:71-75  model.fit throws: train clears
\* its flag and returns null; a retrain that awaited it clears its own flag
\* and returns false
FitFail(t) ==
    /\ task[t].pc = "fit"
    /\ LET r == task[t]
           abandoned == [trainer EXCEPT !.isTraining = FALSE]
       IN  /\ nn' = TrainFailedNN
           /\ trainLog' = TrainReturned("null", FALSE, nn.modelVersion, nn',
                                        Cardinality(Fitting \ {t}))
           /\ task' = [task EXCEPT ![t] = IdleTask]
           /\ IF r.kind = "train"
              THEN UNCHANGED <<trainer, retrainLog>>
              ELSE /\ trainer' = abandoned
                   /\ retrainLog' = RetrainReturned(r, "false", FALSE, "train",
                                                    abandoned, nn')
    /\ UNCHANGED <<now, candles, preds, archived, score, saved, predictObs, ens, pureVars>>

\* part_001:128-148, trainer.js:71-78  model.fit resolves after its
\* last update: train clears its flag, increments the version and returns the
\* history; a retrain that awaited it calls neuralNetwork.evaluate, which
\* awaits the loss
FitDone(t) ==
    /\ task[t].pc = "fit"
    /\ task[t].step = FitSteps
    /\ nn' = TrainDoneNN
    /\ trainLog' = TrainReturned("history", FALSE, nn.modelVersion, nn',
                                 Cardinality(Fitting \ {t}))
    /\ task' = [task EXCEPT ![t] =
                  IF @.kind = "train" THEN IdleTask
                  ELSE [@ EXCEPT !.pc = "r_eval", !.step = 0, !.base = 0]]
    /\ UNCHANGED <<now, candles, preds, archived, score, saved, trainer,
                   predictObs, retrainLog, ens, pureVars>>

\* part_001:206-237, trainer.js:78-86  evaluate returns the loss and
\* accuracy, and retrain calls neuralNetwork.saveModel, which awaits
\* model.save; or evaluate caught an error and returns null, reading
\* evaluation.loss throws, and retrain's catch clears the flag and returns
\* false
RetrainEval(t) ==
    /\ task[t].pc = "r_eval"
    /\ \E ok \in BOOLEAN :
         LET r == task[t]
             abandoned == [trainer EXCEPT !.isTraining = FALSE]
         IN  IF ok
             THEN /\ task' = [task EXCEPT ![t].pc = "r_save"]
                  /\ UNCHANGED <<trainer, retrainLog>>
             ELSE /\ trainer' = abandoned
                  /\ retrainLog' = RetrainReturned(r, "false", FALSE,
                                                   "evaluate", abandoned, nn)
                  /\ task' = [task EXCEPT ![t] = IdleTask]
    /\ UNCHANGED <<now, candles, preds, archived, score, nn, saved,
                   predictObs, trainLog, ens, pureVars>>

\* part_001:242-262, trainer.js:86-91  model.save has written the
\* model, or it threw and saveModel returns false; retrain does not look at
\* the result: it sets lastTrainingTime, clears the flag and returns true
RetrainSave(t) ==
    /\ task[t].pc = "r_save"
    /\ \E ok \in BOOLEAN :
         LET r == task[t]
             done == [isTraining |-> FALSE, lastTrainingTime |-> now]
         IN  /\ saved' = IF ok THEN nn.weights ELSE saved
             /\ trainer' = done
             /\ retrainLog' = RetrainReturned(r, "true", FALSE,
                                  IF ok THEN "none" ELSE "save", done, nn)
             /\ task' = [task EXCEPT ![t] = IdleTask]
    /\ UNCHANGED <<now, candles, preds, archived, score, nn, predictObs,
                   trainLog, ens, pureVars>>

(* ----------------------------- environment ----------------------------- *)
\* time passes
Tick ==
    /\ now < T0 + MaxTicks * CandleWindow
    /\ now' = now + CandleWindow
    /\ UNCHANGED <<candles, preds, archived, score, nn, saved, trainer, task,
                   predictObs, retrainLog, trainLog, ens, pureVars>>

\* part_004:427, database.js:103-118  a CANDLES_UPDATE message brings the
\* candle of the current minute (a window too short for a prediction)
StoreCandles ==
    /\ \E close \in Closes :
         candles' = PutCandle([timestamp |-> now, close |-> close])
    /\ UNCHANGED <<now, preds, archived, score, nn, saved, trainer, task,
                   predictObs, retrainLog, trainLog, ens, pureVars>>

(* -------------------------- EnsemblePredictor -------------------------- *)
\* Probabilities and confidences are fixed-point numbers, One standing for
\* 1.0, so that the products and the rounding below are exact.
One == 100000
\* CONFIG.MIN_CONFIDENCE_THRESHOLD, 0.65
MIN_CONFIDENCE_THRESHOLD == 65000
\* CONFIG.ENSEMBLE_WEIGHTS, 0.4 and 0.6, in tenths
WeightHistorical == 4
WeightML == 6
\* part_002:288 and 293, 0.05 and 0.1
PatternBonus == 5000
ConflictPenalty == 10000

Max(a, b) == IF a > b THEN a ELSE b
Min(a, b) == IF a < b THEN a ELSE b

\* math.js:145-147
NoClamp(value, lo, hi) == value
Clamp(value, lo, hi) == Min(Max(value, lo), hi)

\* math.js:152-155  round(value, 3): Math.round(value * 1000) / 1000, halves
\* rounded up
Round3(value) == ((value + 50) \div 100) * 100

\* part_002:74-81, 118-124  the result of a source that has no
\* prediction
NoPrediction ==
    [prediction |-> "null", confidence |-> 0, up |-> 0, down |-> 0, neutral |-> 0]

\* part_003:210-259  the historical source's result from the share
\* of the UP weight
HistoricalPrediction(upProbability) ==
    [prediction |-> IF upProbability > One - upProbability THEN "UP" ELSE "DOWN",
     confidence |-> Max(upProbability, One - upProbability),
     up |-> upProbability, down |-> One - upProbability, neutral |-> 0]

\* part_001:178-201, part_002:126-135  the neural
\* source's result: the label of the first largest probability and that
\* probability
MLPrediction(up, down) ==
    LET neutral == One - up - down
        best == Max(up, Max(down, neutral))
    IN  [prediction |-> IF up = best THEN "UP"
                        ELSE IF down = best THEN "DOWN" ELSE "NEUTRAL",
         confidence |-> best, up |-> up, down |-> down, neutral |-> neutral]

StrongBullish == {"three_white_soldiers", "morning_star", "bullish_engulfing"}
StrongBearish == {"three_black_crows", "evening_star", "bearish_engulfing"}

\* part_002:261-298
ApplyBonusOnly(confidence, patterns) ==
    IF patterns = {} THEN confidence
    ELSE LET bullishCount == Cardinality(patterns \cap StrongBullish)
             bearishCount == Cardinality(patterns \cap StrongBearish)
         IN  Clamp(confidence + PatternBonus * Max(bullishCount, bearishCount),
                   0, One)
ApplyPatternAdjustments(confidence, patterns) ==
    IF patterns = {} THEN confidence
    ELSE LET bullishCount == Cardinality(patterns \cap StrongBullish)
             bearishCount == Cardinality(patterns \cap StrongBearish)
             adjustment ==
                 IF bullishCount > 0 /\ bearishCount > 0 THEN -ConflictPenalty
                 ELSE IF bullishCount > 0 \/ bearishCount > 0
                      THEN PatternBonus * Max(bullishCount, bearishCount)
                      ELSE 0
         IN  Clamp(confidence + adjustment, 0, One)

\* part_002:154-158, 162-166  {...pred, method, features}: the
\* source's own fields and nothing else; `has` lists the fields of the output
\* the model follows that are present; `raw` and `adjusted` are the values of
\* confidence (192) and adjustedConfidence (195) before they are rounded
ForwardRounded(pred, method) ==
    [prediction |-> pred.prediction, confidence |-> Round3(pred.confidence),
     rawConfidence |-> 0, raw |-> 0, scores |-> [up |-> 0, down |-> 0],
     adjusted |-> Round3(pred.confidence),
     meetsThreshold |-> FALSE, method |-> method, has |-> {}]
Forward(pred, method) ==
    [prediction |-> pred.prediction, confidence |-> pred.confidence,
     rawConfidence |-> 0, raw |-> 0, scores |-> [up |-> 0, down |-> 0],
     adjusted |-> pred.confidence,
     meetsThreshold |-> FALSE, method |-> method, has |-> {}]

\* part_002:231-245  both sources carry their probabilities
GetPredictionScoreSwapped(pred) == [up |-> pred.down, down |-> pred.up]
GetPredictionScore(pred) == [up |-> pred.up, down |-> pred.down]

\* part_002:149-226
CombinePredictions(historicalPred, mlPred, patterns) ==
    IF historicalPred.prediction = "null" /\ mlPred.prediction # "null"
    THEN Forward(mlPred, "ml_only")
    ELSE IF historicalPred.prediction # "null" /\ mlPred.prediction = "null"
    THEN Forward(historicalPred, "historical_only")
    ELSE IF historicalPred.prediction = "null" /\ mlPred.prediction = "null"
    THEN [prediction |-> "null", confidence |-> 0, rawConfidence |-> 0,
          raw |-> 0, scores |-> [up |-> 0, down |-> 0],
          adjusted |-> 0, meetsThreshold |-> FALSE, method |-> "none",
          has |-> {}]
    ELSE LET historicalScore == GetPredictionScore(historicalPred)
             mlScore == GetPredictionScore(mlPred)
             combinedUp == (historicalScore.up * WeightHistorical
                            + mlScore.up * WeightML) \div 10
             combinedDown == (historicalScore.down * WeightHistorical
                              + mlScore.down * WeightML) \div 10
             confidence == Max(combinedUp, combinedDown)
             adjustedConfidence == ApplyPatternAdjustments(confidence, patterns)
         IN  [prediction |-> IF combinedUp > combinedDown THEN "UP" ELSE "DOWN",
              confidence |-> Round3(adjustedConfidence),
              rawConfidence |-> Round3(confidence),
              raw |-> confidence,
              scores |-> [up |-> combinedUp, down |-> combinedDown],
              adjusted |-> adjustedConfidence,
              meetsThreshold |-> adjustedConfidence >= MIN_CONFIDENCE_THRESHOLD,
              method |-> "ensemble",
              has |-> {"meetsThreshold", "rawConfidence", "timestamp"}]

\* the inputs the combiner is tried on
UpShares == {0, 40000, 50000, 60000, 64940, 90010, One}
MLShares == {<<70000, 30000>>, <<30000, 70000>>, <<20000, 30000>>,
             <<40000, 40000>>,
             <<64950, 35050>>, <<90010, 9990>>, <<One, 0>>}
PatternSets ==
    SUBSET {"hammer", "morning_star", "bullish_engulfing", "bearish_engulfing"}
HistoricalInputs == {NoPrediction} \cup {HistoricalPrediction(u) : u \in UpShares}
MLInputs == {NoPrediction} \cup {MLPrediction(m[1], m[2]) : m \in MLShares}

\* part_002:50-54  predict calls combinePredictions with the two
\* sources' results and the features carrying the detected patterns
Combine ==
    /\ \E h \in HistoricalInputs, m \in MLInputs, ps \in PatternSets :
         ens' = [called |-> TRUE, historical |-> h, ml |-> m, patterns |-> ps,
                 out |-> CombinePredictions(h, m, ps)]
    /\ UNCHANGED <<agentVars, pureVars>>

(* ---------------------------- PatternDetector -------------------------- *)
\* Prices are whole numbers 1..MaxPrice; a candle is a record of its open,
\* high, low and close. The rules take any candle, also one whose high and
\* low do not enclose its open and close.
Prices == 1..MaxPrice
AnyCandles == [open : Prices, high : Prices, low : Prices, close : Prices]

\* PATTERN_CONFIG (part_003:857-867), in tenths: the rules compare a quotient
\* with k / 10
HammerMinLowerWickRatio == 20
HammerMaxUpperWickRatio == 3
HammerMaxBodyRatio == 3
DojiMaxBodyRatio == 1
EngulfingMinBodyRatio == 10
\* pattern-detector.js:107-109, 199, 220  the literals 2.0 and 0.3, in tenths
InvertedMinUpperWickRatio == 20
InvertedMaxRatio == 3
StarMaxBodyRatio == 3
\* pattern-detector.js:150, 175  the body ratio taken for an empty previous
\* body, in tenths
EngulfingNoBodyRatio == 9990
\* pattern-detector.js:360, 374  0.001 as 1 / TweezerTolerance
TweezerTolerance == 1000

Body(c) == Abs(c.close - c.open)
Range(c) == c.high - c.low
UpperWick(c) == c.high - Max(c.open, c.close)
LowerWick(c) == Min(c.open, c.close) - c.low

\* The quotient n / d of two numbers as JavaScript computes it, compared with
\* the constant kn / kd (kd > 0): with d = 0 the quotient is +Infinity for
\* n > 0, -Infinity for n < 0 and NaN for n = 0, and every comparison with NaN
\* is false.
QuotientGE(n, d, kn, kd) ==
    IF d > 0 THEN n * kd >= kn * d
    ELSE IF d < 0 THEN n * kd <= kn * d
    ELSE n > 0
QuotientLE(n, d, kn, kd) ==
    IF d > 0 THEN n * kd <= kn * d
    ELSE IF d < 0 THEN n * kd >= kn * d
    ELSE n < 0
QuotientLT(n, d, kn, kd) ==
    IF d > 0 THEN n * kd < kn * d
    ELSE IF d < 0 THEN n * kd > kn * d
    ELSE n < 0

\* pattern-detector.js:77, 100, 129, 199, 220  the test range === 0
NeverZeroRange(c) == FALSE
RangeIsZero(c) == Range(c) = 0

\* What a rule answers: whether the candles match, and whether the rule
\* divided by the range of the candle it takes the ratio of.
RuleResult(match, rangeDiv) == [match |-> match, rangeDiv |-> rangeDiv]

\* pattern-detector.js:71-88
IsHammer(candle) ==
    IF RangeIsZero(candle) THEN RuleResult(FALSE, FALSE)
    ELSE RuleResult(
           /\ QuotientGE(LowerWick(candle), Body(candle),
                         HammerMinLowerWickRatio, 10)
           /\ QuotientLE(UpperWick(candle), Body(candle),
                         HammerMaxUpperWickRatio, 10)
           /\ QuotientLE(Body(candle), Range(candle), HammerMaxBodyRatio, 10),
           TRUE)

\* pattern-detector.js:94-111
IsInvertedHammer(candle) ==
    IF RangeIsZero(candle) THEN RuleResult(FALSE, FALSE)
    ELSE RuleResult(
           /\ QuotientGE(UpperWick(candle), Body(candle),
                         InvertedMinUpperWickRatio, 10)
           /\ QuotientLE(LowerWick(candle), Body(candle), InvertedMaxRatio, 10)
           /\ QuotientLE(Body(candle), Range(candle), InvertedMaxRatio, 10),
           TRUE)

\* pattern-detector.js:125-133
IsDoji(candle) ==
    IF RangeIsZero(candle) THEN RuleResult(FALSE, FALSE)
    ELSE RuleResult(QuotientLE(Body(candle), Range(candle),
                               DojiMaxBodyRatio, 10), TRUE)

\* pattern-detector.js:150, 175  prevBody === 0 ? 999 : currBody / prevBody,
\* compared with minBodyRatio
EngulfingBodyRatio(prev, curr) ==
    IF Body(prev) = 0 THEN EngulfingNoBodyRatio >= EngulfingMinBodyRatio
    ELSE QuotientGE(Body(curr), Body(prev), EngulfingMinBodyRatio, 10)

\* pattern-detector.js:139-158  candles = <<prev, curr>>
IsBullishEngulfing(cs) ==
    IF Len(cs) < 2 THEN FALSE
    ELSE LET prev == cs[1]
             curr == cs[2]
         IN  /\ prev.close < prev.open
             /\ curr.close > curr.open
             /\ curr.open < prev.close /\ curr.close > prev.open
             /\ EngulfingBodyRatio(prev, curr)

\* pattern-detector.js:164-183
IsBearishEngulfing(cs) ==
    IF Len(cs) < 2 THEN FALSE
    ELSE LET prev == cs[1]
             curr == cs[2]
         IN  /\ prev.close > prev.open
             /\ curr.close < curr.open
             /\ curr.open > prev.close /\ curr.close < prev.open
             /\ EngulfingBodyRatio(prev, curr)

\* pattern-detector.js:197-199, 218-220  secondSmall and whether the second
\* candle's range was divided by
SecondSmall(second) ==
    IF RangeIsZero(second) THEN RuleResult(FALSE, FALSE)
    ELSE RuleResult(QuotientLT(Body(second), Range(second),
                               StarMaxBodyRatio, 10), TRUE)

\* pattern-detector.js:189-204  candles = <<first, second, third>>
IsMorningStar(cs) ==
    IF Len(cs) < 3 THEN RuleResult(FALSE, FALSE)
    ELSE LET first == cs[1]
             second == cs[2]
             third == cs[3]
             small == SecondSmall(second)
         IN  RuleResult(/\ first.close < first.open
                        /\ small.match
                        /\ third.close > third.open
                        /\ 2 * third.close > first.open + first.close,
                        small.rangeDiv)

\* pattern-detector.js:210-225
IsEveningStar(cs) ==
    IF Len(cs) < 3 THEN RuleResult(FALSE, FALSE)
    ELSE LET first == cs[1]
             second == cs[2]
             third == cs[3]
             small == SecondSmall(second)
         IN  RuleResult(/\ first.close > first.open
                        /\ small.match
                        /\ third.close < third.open
                        /\ 2 * third.close < first.open + first.close,
                        small.rangeDiv)

\* pattern-detector.js:231-255
IsThreeWhiteSoldiers(cs) ==
    IF Len(cs) < 3 THEN FALSE
    ELSE /\ \A i \in 1..Len(cs) : cs[i].close > cs[i].open
         /\ \A i \in 2..Len(cs) :
              /\ cs[i].open >= cs[i - 1].open
              /\ cs[i].open <= cs[i - 1].close
         /\ \A i \in 2..Len(cs) : cs[i].close > cs[i - 1].close

\* pattern-detector.js:261-285
IsThreeBlackCrows(cs) ==
    IF Len(cs) < 3 THEN FALSE
    ELSE /\ \A i \in 1..Len(cs) : cs[i].close < cs[i].open
         /\ \A i \in 2..Len(cs) :
              /\ cs[i].open >= cs[i - 1].close
              /\ cs[i].open <= cs[i - 1].open
         /\ \A i \in 2..Len(cs) : cs[i].close < cs[i - 1].close

\* pattern-detector.js:322-334
IsPiercingPattern(cs) ==
    IF Len(cs) < 2 THEN FALSE
    ELSE LET prev == cs[1]
             curr == cs[2]
         IN  /\ prev.close < prev.open
             /\ curr.close > curr.open
             /\ curr.open < prev.close
             /\ 2 * curr.close > prev.open + prev.close

\* pattern-detector.js:339-351
IsDarkCloudCover(cs) ==
    IF Len(cs) < 2 THEN FALSE
    ELSE LET prev == cs[1]
             curr == cs[2]
         IN  /\ prev.close > prev.open
             /\ curr.close < curr.open
             /\ curr.open > prev.close
             /\ 2 * curr.close < prev.open + prev.close

\* pattern-detector.js:356-365
IsTweezerTop(cs) ==
    IF Len(cs) < 2 THEN FALSE
    ELSE LET prev == cs[1]
             curr == cs[2]
         IN  /\ QuotientLT(Abs(prev.high - curr.high), prev.high,
                           1, TweezerTolerance)
             /\ prev.close > prev.open
             /\ curr.close < curr.open

\* pattern-detector.js:370-379
IsTweezerBottom(cs) ==
    IF Len(cs) < 2 THEN FALSE
    ELSE LET prev == cs[1]
             curr == cs[2]
         IN  /\ QuotientLT(Abs(prev.low - curr.low), prev.low,
                           1, TweezerTolerance)
             /\ prev.close < prev.open
             /\ curr.close > curr.open

\* candles.slice(-n)
LastN(s, n) == SubSeq(s, Max(1, Len(s) - n + 1), Len(s))

\* pattern-detector.js:290-318
DetectAdvancedPatterns(cs) ==
    IF Len(cs) < 5 THEN {}
    ELSE {n \in {"piercing_pattern"} : IsPiercingPattern(LastN(cs, 2))}
         \cup {n \in {"dark_cloud_cover"} : IsDarkCloudCover(LastN(cs, 2))}
         \cup {n \in {"tweezer_top"} : IsTweezerTop(LastN(cs, 2))}
         \cup {n \in {"tweezer_bottom"} : IsTweezerBottom(LastN(cs, 2))}

\* pattern-detector.js:13-64  the names pushed, each at most once (every rule
\* of PATTERN_CONFIG is enabled)
DetectPatterns(cs) ==
    IF Len(cs) < 3 THEN {}
    ELSE {n \in {"hammer"} : IsHammer(cs[Len(cs)]).match}
         \cup {n \in {"doji"} : IsDoji(cs[Len(cs)]).match}
         \cup {n \in {"bullish_engulfing"} : IsBullishEngulfing(LastN(cs, 2))}
         \cup {n \in {"bearish_engulfing"} : IsBearishEngulfing(LastN(cs, 2))}
         \cup {n \in {"morning_star"} : IsMorningStar(LastN(cs, 3)).match}
         \cup {n \in {"evening_star"} : IsEveningStar(LastN(cs, 3)).match}
         \cup {n \in {"three_white_soldiers"} : IsThreeWhiteSoldiers(LastN(cs, 3))}
         \cup {n \in {"three_black_crows"} : IsThreeBlackCrows(LastN(cs, 3))}
         \cup DetectAdvancedPatterns(cs)

\* the rules that take one candle and the rules that take three
SingleRules == {"isHammer", "isInvertedHammer", "isDoji"}
StarRules == {"isMorningStar", "isEveningStar"}
SingleRule(rule, candle) ==
    IF rule = "isHammer" THEN IsHammer(candle)
    ELSE IF rule = "isInvertedHammer" THEN IsInvertedHammer(candle)
    ELSE IsDoji(candle)
StarRule(rule, cs) ==
    IF rule = "isMorningStar" THEN IsMorningStar(cs) ELSE IsEveningStar(cs)

\* the first and third candles the star rules are tried with: a falling and
\* a rising candle
StarEnds == {[open |-> MaxPrice - 1, high |-> MaxPrice, low |-> 1, close |-> 2],
             [open |-> 2, high |-> MaxPrice, low |-> 1, close |-> MaxPrice - 1]}

NoRule ==
    [called |-> FALSE, rule |-> "none", candles |-> <<>>, ratioOf |-> 0,
     result |-> RuleResult(FALSE, FALSE)]

\* a caller applies a one-candle rule to a candle; ratioOf is the position of
\* the candle whose range the rule divides by
CallSingleRule ==
    /\ ~pd.called
    /\ \E rule \in SingleRules, c \in AnyCandles :
         pd' = [called |-> TRUE, rule |-> rule, candles |-> <<c>>, ratioOf |-> 1,
                result |-> SingleRule(rule, c)]
    /\ UNCHANGED <<agentVars, ens, fx, sim, hist, appVars>>

\* a caller applies a star rule to three candles
CallStarRule ==
    /\ ~pd.called
    /\ \E rule \in StarRules, first \in StarEnds, second \in AnyCandles,
          third \in StarEnds :
         pd' = [called |-> TRUE, rule |-> rule,
                candles |-> <<first, second, third>>, ratioOf |-> 2,
                result |-> StarRule(rule, <<first, second, third>>)]
    /\ UNCHANGED <<agentVars, ens, fx, sim, hist, appVars>>

(* --------------------------- FeatureExtractor -------------------------- *)
\* Ratios, slopes and similarities are fixed-point numbers, Unit standing for
\* 1.0; the quotients are rounded down.
Unit == 1000
\* part_003:321  the least window
MIN_CANDLES == 20
\* part_003:430-436, 465  the periods of the slopes and of the ATR
ShortPeriod == 5
MediumPeriod == 10
LongPeriod == 20
AtrPeriod == 14
\* FEATURE_CONFIG.supportResistance (part_003:848-849): lookback, and
\* the threshold 0.02 in hundredths
SupportLookback == 50
SupportThreshold == 2

RECURSIVE Sum(_)
Sum(s) == IF s = <<>> THEN 0 ELSE s[1] + Sum(Tail(s))

\* math.js:38-41  mean of numbers that carry the scale already
Mean(s) == IF Len(s) = 0 THEN 0 ELSE Sum(s) \div Len(s)

\* math.js:56-69  values are prices; the slope is scaled by Unit
LinearRegressionSlope(values) ==
    IF Len(values) < 2 THEN 0
    ELSE LET n == Len(values)
             sumX == Sum([i \in 1..n |-> i - 1])
             sumY == Sum(values)
             sumXY == Sum([i \in 1..n |-> (i - 1) * values[i]])
             sumXX == Sum([i \in 1..n |-> (i - 1) * (i - 1)])
         IN  ((n * sumXY - sumX * sumY) * Unit) \div (n * sumXX - sumX * sumX)

\* math.js:123-140
CalculateATR(cs, period) ==
    IF Len(cs) < period + 1 THEN 0
    ELSE LET trueRanges ==
                 [i \in 1..(Len(cs) - 1) |->
                    Max(cs[i + 1].high - cs[i + 1].low,
                        Max(Abs(cs[i + 1].high - cs[i].close),
                            Abs(cs[i + 1].low - cs[i].close))) * Unit]
         IN  Mean(LastN(trueRanges, period))

\* part_003:361-365  range === 0 ? 0 : body / range
BodyRatio(c) == IF Range(c) = 0 THEN 0 ELSE (Body(c) * Unit) \div Range(c)
\* part_003:367-369
BodyDirection(c) ==
    IF c.close > c.open THEN 1 ELSE IF c.close < c.open THEN -1 ELSE 0
\* part_003:392-402
UpperWickRatio(c) ==
    IF Range(c) = 0 THEN 0 ELSE (UpperWick(c) * Unit) \div Range(c)
LowerWickRatio(c) ==
    IF Range(c) = 0 THEN 0 ELSE (LowerWick(c) * Unit) \div Range(c)

\* part_003:502-512  the backward scan over last20 from position i with the
\* counters so far: a counter is incremented before the other one is tested
RECURSIVE ScanRuns(_, _, _, _)
ScanRuns(last20, i, consecutiveBullish, consecutiveBearish) ==
    IF i = 0
    THEN [bullish |-> consecutiveBullish, bearish |-> consecutiveBearish]
    ELSE IF last20[i].close > last20[i].open
    THEN IF consecutiveBearish > 0
         THEN [bullish |-> consecutiveBullish + 1, bearish |-> consecutiveBearish]
         ELSE ScanRuns(last20, i - 1, consecutiveBullish + 1, consecutiveBearish)
    ELSE IF last20[i].close < last20[i].open
    THEN IF consecutiveBullish > 0
         THEN [bullish |-> consecutiveBullish, bearish |-> consecutiveBearish + 1]
         ELSE ScanRuns(last20, i - 1, consecutiveBullish, consecutiveBearish + 1)
    ELSE [bullish |-> consecutiveBullish, bearish |-> consecutiveBearish]

\* part_003:495-512
ConsecutiveRuns(cs) ==
    LET last20 == LastN(cs, MIN_CANDLES) IN ScanRuns(last20, Len(last20), 0, 0)

RECURSIVE MinOf(_)
MinOf(s) == IF Len(s) = 1 THEN s[1] ELSE Min(s[1], MinOf(Tail(s)))
RECURSIVE MaxOf(_)
MaxOf(s) == IF Len(s) = 1 THEN s[1] ELSE Max(s[1], MaxOf(Tail(s)))

\* part_003:559-580  prices are positive
NearSupport(cs) ==
    LET recent == LastN(cs, Min(SupportLookback, Len(cs)))
        currentPrice == cs[Len(cs)].close
        support == MinOf([i \in 1..Len(recent) |-> recent[i].low])
    IN  IF QuotientLE(currentPrice - support, currentPrice, SupportThreshold, 100)
        THEN 1 ELSE 0
NearResistance(cs) ==
    LET recent == LastN(cs, Min(SupportLookback, Len(cs)))
        currentPrice == cs[Len(cs)].close
        resistance == MaxOf([i \in 1..Len(recent) |-> recent[i].high])
    IN  IF QuotientLE(resistance - currentPrice, currentPrice, SupportThreshold, 100)
        THEN 1 ELSE 0

\* part_003:464-473  avgRange === 0 ? 1 : currentRange / avgRange
VolatilityRatio(cs) ==
    LET last20 == LastN(cs, MIN_CANDLES)
        ranges == [i \in 1..Len(last20) |-> Range(last20[i])]
    IN  IF Sum(ranges) = 0 THEN Unit
        ELSE (ranges[Len(ranges)] * Len(ranges) * Unit) \div Sum(ranges)

\* the insufficient-data result of extractFeatures (null)
NullFeatures ==
    [isNull |-> TRUE, bodyRatios |-> <<>>, bodyDirections |-> <<>>,
     upperWickRatios |-> <<>>, lowerWickRatios |-> <<>>,
     shortTermSlope |-> 0, mediumTermSlope |-> 0, longTermSlope |-> 0,
     averageTrueRange |-> 0, volatilityRatio |-> 0,
     consecutiveBullish |-> 0, consecutiveBearish |-> 0,
     nearSupport |-> 0, nearResistance |-> 0,
     hasPatterns |-> FALSE, patterns |-> {}]

\* part_003:325-348  the feature set of a window that has a candle; the model
\* follows the fields SimilarityMatcher.calculateSimilarity reads
FeatureSet(cs) ==
    LET last20 == LastN(cs, MIN_CANDLES)
        closePrices == [i \in 1..Len(cs) |-> cs[i].close]
        runs == ConsecutiveRuns(cs)
    IN  [isNull |-> FALSE,
         bodyRatios |-> [i \in 1..Len(last20) |-> BodyRatio(last20[i])],
         bodyDirections |-> [i \in 1..Len(last20) |-> BodyDirection(last20[i])],
         upperWickRatios |-> [i \in 1..Len(last20) |-> UpperWickRatio(last20[i])],
         lowerWickRatios |-> [i \in 1..Len(last20) |-> LowerWickRatio(last20[i])],
         shortTermSlope |-> LinearRegressionSlope(LastN(closePrices, ShortPeriod)),
         mediumTermSlope |-> LinearRegressionSlope(LastN(closePrices, MediumPeriod)),
         longTermSlope |-> LinearRegressionSlope(LastN(closePrices, LongPeriod)),
         averageTrueRange |-> CalculateATR(cs, AtrPeriod),
         volatilityRatio |-> VolatilityRatio(cs),
         consecutiveBullish |-> runs.bullish,
         consecutiveBearish |-> runs.bearish,
         nearSupport |-> NearSupport(cs),
         nearResistance |-> NearResistance(cs),
         hasPatterns |-> FALSE, patterns |-> {}]

\* part_003:321  !candles || candles.length < 20; a window is a record of
\* whether the argument is there and the candles it lists
OnlyMissing(window) == ~window.present
InsufficientCandles(window) ==
    ~window.present \/ Len(window.list) < MIN_CANDLES

\* part_003:320-354  extractFeatures: an exception of an extractor (the last
\* candle of an empty list is undefined) is caught and null returned
ExtractFeatures(window) ==
    IF InsufficientCandles(window) THEN NullFeatures
    ELSE IF Len(window.list) = 0 THEN NullFeatures
    ELSE FeatureSet(window.list)

\* part_002:40-41  predict adds the detected patterns to the feature set
WithPatterns(features, cs) ==
    [features EXCEPT !.hasPatterns = TRUE, !.patterns = DetectPatterns(cs)]

\* The candle windows the extractor is tried on: Len candles of one shape,
\* the newest ones replaced by a tail of up to TailLen candles of any shape.
Rising == [open |-> 2, high |-> 5, low |-> 2, close |-> 5]
Falling == [open |-> 4, high |-> 4, low |-> 2, close |-> 3]
Still == [open |-> 3, high |-> 4, low |-> 2, close |-> 3]
Flat == [open |-> 3, high |-> 3, low |-> 3, close |-> 3]
Shapes == {Rising, Falling, Still, Flat}
Tails == UNION {[1..k -> Shapes] : k \in 0..TailLen}
WindowOf(len, base, tail) ==
    [i \in 1..len |-> IF i > len - Len(tail) THEN tail[i - (len - Len(tail))]
                      ELSE base]
CandleLists ==
    {WindowOf(len, base, tail) :
        len \in 0..MaxWindow, base \in {Rising, Falling},
        tail \in Tails}
Windows ==
    {[present |-> FALSE, list |-> <<>>]}
    \cup {[present |-> TRUE, list |-> l] : l \in CandleLists}

NoSimilarity ==
    [called |-> FALSE, features1 |-> NullFeatures, features2 |-> NullFeatures,
     similarity |-> 0]

\* CONFIG.MODEL_INPUT_FEATURES, the inputShape of the classifier
\* (part_001:27)
MODEL_INPUT_FEATURES == 60

\* part_003:624-654  featuresToArray: the four per-candle arrays, then the
\* fourteen scalars in their order, each replaced by 0 when falsy. The feature
\* set of the model does not carry bullishRatio, higherHighs, lowerLows,
\* trendStrength and momentumStrength: each is one entry of the array whatever
\* its value, written 0 here.
FeaturesToArray(features) ==
    features.bodyRatios \o features.bodyDirections
    \o features.upperWickRatios \o features.lowerWickRatios
    \o <<features.shortTermSlope, features.mediumTermSlope,
          features.longTermSlope, features.averageTrueRange,
          features.volatilityRatio, features.consecutiveBullish,
          features.consecutiveBearish, 0, features.nearSupport,
          features.nearResistance, 0, 0, 0, 0>>

NoExtract ==
    [called |-> FALSE, window |-> [present |-> FALSE, list |-> <<>>],
     out |-> NullFeatures, array |-> <<>>]

\* part_002:33-41, 112-113  a caller extracts the features of a window, and
\* getMLPrediction flattens them for neuralNetwork.predict
Extract ==
    /\ ~fx.called
    /\ \E w \in Windows :
         LET features == ExtractFeatures(w)
         IN  fx' = [called |-> TRUE, window |-> w, out |-> features,
                    array |-> IF features.isNull THEN <<>>
                              ELSE FeaturesToArray(features)]
    /\ UNCHANGED <<agentVars, ens, pd, sim, hist, appVars>>

(* --------------------------- SimilarityMatcher ------------------------- *)
\* part_003:146  the Infinity the cost matrix is filled with: larger than
\* every distance of two series
Infinity == 1000000000
\* what stands for NaN, the quotient 0 / 0
NotANumber == -1

\* CONFIG.FEATURE_WEIGHTS (part_003:779-794), in tenths
FEATURE_WEIGHTS ==
    [bodyRatios |-> 10, bodyDirections |-> 12, upperWickRatios |-> 8,
     lowerWickRatios |-> 8, shortTermSlope |-> 15, mediumTermSlope |-> 13,
     longTermSlope |-> 10, averageTrueRange |-> 11, volatilityRatio |-> 12,
     consecutiveBullish |-> 9, consecutiveBearish |-> 9, nearSupport |-> 13,
     nearResistance |-> 13, patterns |-> 14]

\* part_003:66-71, 87-97  the features compared, in the order of the code;
\* the features that are counts or signs are brought to the scale of Unit
ArrayFeatures ==
    <<"bodyRatios", "bodyDirections", "upperWickRatios", "lowerWickRatios">>
ScalarFeatures ==
    <<"shortTermSlope", "mediumTermSlope", "longTermSlope", "averageTrueRange",
      "volatilityRatio", "consecutiveBullish", "consecutiveBearish",
      "nearSupport", "nearResistance">>
Unscaled ==
    {"bodyDirections", "consecutiveBullish", "consecutiveBearish",
     "nearSupport", "nearResistance"}
ScaleOf(featureName) == IF featureName \in Unscaled THEN Unit ELSE 1
Scaled(series, scale) ==
    LET scaled == [k \in 1..Len(series) |-> series[k] * scale]
    IN  SubSeq(scaled, 1, Len(scaled))

\* part_003:150-160  one row of the cost matrix from the row before: acc
\* holds the columns 0..Len(acc)-1 of the row
\* Op applied to the value of v, the value computed first
Eager(v, Op(_)) == CHOOSE r \in {Op(x) : x \in {v}} : TRUE

RECURSIVE DtwRow(_, _, _, _)
DtwRow(prev, x, series2, acc) ==
    LET j == Len(acc)
    IN  IF j > Len(series2) THEN acc
        ELSE Eager(Append(acc, Min(Infinity,
                                   Abs(x - series2[j])
                                   + Min(prev[j + 1], Min(acc[j], prev[j])))),
                   LAMBDA a : DtwRow(prev, x, series2, a))

RECURSIVE DtwRows(_, _, _, _)
DtwRows(series1, series2, i, prev) ==
    IF i > Len(series1) THEN prev[Len(series2) + 1]
    ELSE Eager(DtwRow(prev, series1[i], series2, <<Infinity>>),
               LAMBDA row : DtwRows(series1, series2, i + 1, row))

\* part_003:140-163
DtwDistance(series1, series2) ==
    DtwRows(series1, series2, 1,
            [j \in 1..(Len(series2) + 1) |-> IF j = 1 THEN 0 ELSE Infinity])

\* part_003:126-135  1 - min(distance / maxDistance, 1)
DtwSimilarity(series1, series2) ==
    LET distance == DtwDistance(series1, series2)
        maxDistance == Max(Len(series1), Len(series2))
    IN  IF maxDistance = 0 THEN NotANumber
        ELSE Unit - Min(distance \div maxDistance, Unit)

\* part_003:180-185
ScalarSimilarity(val1, val2) ==
    LET maxVal == Max(Abs(val1), Max(Abs(val2), Unit))
        diff == Abs(val1 - val2)
    IN  Unit - Min((diff * Unit) \div maxVal, Unit)

\* part_003:190-205  Jaccard similarity of the two tag sets
PatternArraySimilarityNoEmpty(patterns1, patterns2) ==
    IF patterns1 \cup patterns2 = {} THEN 0
    ELSE (Cardinality(patterns1 \cap patterns2) * Unit)
         \div Cardinality(patterns1 \cup patterns2)
PatternArraySimilarity(patterns1, patterns2) ==
    IF patterns1 = {} /\ patterns2 = {} THEN Unit
    ELSE IF patterns1 \cup patterns2 = {} THEN 0
    ELSE (Cardinality(patterns1 \cap patterns2) * Unit)
         \div Cardinality(patterns1 \cup patterns2)

\* part_003:73-119  the similarities and weights added up, as a sequence of
\* <<similarity, weight>>; every feature of a feature set is there, the
\* pattern tags when predict has added them
SimilarityTerms(features1, features2) ==
    [i \in 1..Len(ArrayFeatures) |->
        LET featureName == ArrayFeatures[i]
            s == ScaleOf(featureName)
        IN  <<DtwSimilarity(Scaled(features1[featureName], s),
                            Scaled(features2[featureName], s)),
              FEATURE_WEIGHTS[featureName]>>]
    \o [i \in 1..Len(ScalarFeatures) |->
        LET featureName == ScalarFeatures[i]
            s == ScaleOf(featureName)
        IN  <<ScalarSimilarity(features1[featureName] * s,
                               features2[featureName] * s),
              FEATURE_WEIGHTS[featureName]>>]
    \o (IF features1.hasPatterns /\ features2.hasPatterns
        THEN <<<<PatternArraySimilarity(features1.patterns, features2.patterns),
                 FEATURE_WEIGHTS.patterns>>>>
        ELSE <<>>)

\* part_003:58-121  totalSimilarity / totalWeight
CalculateSimilarity(features1, features2) ==
    LET terms == SimilarityTerms(features1, features2)
        totalSimilarity == Sum([i \in 1..Len(terms) |-> terms[i][1] * terms[i][2]])
        totalWeight == Sum([i \in 1..Len(terms) |-> terms[i][2]])
    IN  IF \E i \in 1..Len(terms) : terms[i][1] = NotANumber THEN NotANumber
        ELSE IF totalWeight = 0 THEN 0
        ELSE totalSimilarity \div totalWeight

\* the window whose feature set the others are also compared with
ReferenceWindow == WindowOf(MIN_CANDLES, Falling, <<Rising>>)

\* part_002:33-41, part_003:25-28  the feature set last extracted, with its
\* pattern tags, is compared with itself or with the reference feature set
Similarity ==
    /\ fx.called
    /\ ~sim.called
    /\ ~fx.out.isNull
    /\ \E self \in BOOLEAN :
         LET f == WithPatterns(fx.out, fx.window.list)
             g == IF self THEN f
                  ELSE WithPatterns(FeatureSet(ReferenceWindow), ReferenceWindow)
         IN  sim' = [called |-> TRUE, features1 |-> f, features2 |-> g,
                     similarity |-> CalculateSimilarity(f, g)]
    /\ UNCHANGED <<agentVars, ens, fx, pd, hist, appVars>>

\* The matches predictFromSimilarPatterns is tried on: up to MaxMatches
\* matches, each a similarity (scaled by Unit) and an outcome ("null" when the
\* pattern has none)
MatchSimilarities == {0, 300, 750, 900, Unit}
Outcomes == {"null", "UP", "DOWN"}
Matches == [similarity : MatchSimilarities, outcome : Outcomes]
MatchLists == UNION {[1..k -> Matches] : k \in 0..MaxMatches}

\* part_003:222-233  the weights of the matches with the outcome
KeepNull(outcome) == FALSE
SkipMatch(outcome) == outcome = "null"
RECURSIVE OutcomeWeight(_, _)
OutcomeWeight(similarPatterns, outcomes) ==
    IF Len(similarPatterns) = 0 THEN 0
    ELSE (IF ~SkipMatch(similarPatterns[1].outcome)
             /\ similarPatterns[1].outcome \in outcomes
          THEN similarPatterns[1].similarity ELSE 0)
         + OutcomeWeight(Tail(similarPatterns), outcomes)

\* part_003:210-259  probabilities scaled by One; the fields of the result
\* are those of NoPrediction
PredictFromSimilarPatterns(similarPatterns) ==
    LET upScore == OutcomeWeight(similarPatterns, {"UP"})
        downScore == OutcomeWeight(similarPatterns, {"DOWN"})
        totalWeight == OutcomeWeight(similarPatterns, Outcomes)
    IN  IF Len(similarPatterns) = 0 \/ totalWeight = 0 THEN NoPrediction
        ELSE LET upProbability == (upScore * One) \div totalWeight
                 downProbability == (downScore * One) \div totalWeight
             IN  [prediction |-> IF upProbability > downProbability
                                 THEN "UP" ELSE "DOWN",
                  confidence |-> Max(upProbability, downProbability),
                  up |-> upProbability, down |-> downProbability, neutral |-> 0]

NoMatchCall ==
    [called |-> FALSE, matches |-> <<>>, out |-> NoPrediction]

\* part_002:85-91  getHistoricalPrediction predicts from the matches found
PredictFromMatches ==
    /\ ~hist.called
    /\ \E ms \in MatchLists :
         hist' = [called |-> TRUE, matches |-> ms,
                  out |-> PredictFromSimilarPatterns(ms)]
    /\ UNCHANGED <<agentVars, ens, fx, pd, sim, appVars>>

(* ---------------------------- specifications --------------------------- *)
NoEns ==
    [called |-> FALSE, historical |-> NoPrediction, ml |-> NoPrediction,
     patterns |-> {}, out |-> CombinePredictions(NoPrediction, NoPrediction, {})]

(* ------------------------ NeuralNetwork.splitData ---------------------- *)
\* trainer.js:64  the ratio retrain passes (and the default), 0.8, in tenths
TrainRatio == 8

\* part_001:349-352  the shuffle: for i from the last index down to 1 the
\* entries i and j are swapped, j = Math.floor(Math.random() * (i + 1)) being
\* any index 0..i. Indices are 0-based as in the code; draws[i] is the j
\* drawn at i.
RECURSIVE Shuffle(_, _, _)
Shuffle(indices, i, draws) ==
    IF i < 1 THEN indices
    ELSE LET j == draws[i]
             swapped == [k \in 1..Len(indices) |->
                           IF k = i + 1 THEN indices[j + 1]
                           ELSE IF k = j + 1 THEN indices[i + 1]
                           ELSE indices[k]]
         IN  Shuffle(swapped, i - 1, draws)

\* the values Math.random can deliver to one shuffle of n entries
Draws(n) == {d \in [1..(n - 1) -> 0..(n - 1)] : \A i \in 1..(n - 1) : d[i] <= i}

\* part_001:344-375  splitData: the first trainSize shuffled entries are the
\* train set, the others the test set; data is the list of the pairs
SplitData(data, trainRatio, draws) ==
    LET totalSamples == Len(data)
        trainSize == (totalSamples * trainRatio) \div 10
        indices == Shuffle([k \in 1..totalSamples |-> k - 1],
                           totalSamples - 1, draws)
        picked == [i \in 1..totalSamples |-> data[indices[i] + 1]]
    IN  [train |-> SubSeq(picked, 1, trainSize),
         test |-> SubSeq(picked, trainSize + 1, totalSamples)]

NoSplit ==
    [called |-> FALSE, data |-> <<>>,
     first |-> [train |-> <<>>, test |-> <<>>],
     second |-> [train |-> <<>>, test |-> <<>>]]

\* trainer.js:63-66  splitData is called with the same data and ratio by two
\* retrains; the pairs of a data set are told apart by their number
SplitTwice ==
    /\ ~split.called
    /\ \E n \in 0..MaxSamples : \E d1, d2 \in Draws(n) :
         LET data == [k \in 1..n |-> k]
         IN  split' = [called |-> TRUE, data |-> data,
                       first |-> SplitData(data, TrainRatio, d1),
                       second |-> SplitData(data, TrainRatio, d2)]
    /\ UNCHANGED <<agentVars, ens, fxVars, restore, risk, boot>>

(* ----------------------- saveModel and loadModel ----------------------- *)
NoRestore ==
    [hasSaved |-> FALSE, savedVersion |-> 0, made |-> FALSE, loaded |-> FALSE,
     version |-> 0]

\* part_001:242-262  saveModel: without a model it returns false; model.save
\* writes the layers and the parameters of the model to
\* indexeddb://trading-ai-model, or throws and saveModel returns false.
\* this.modelVersion is logged (254), it is no part of what is written.
SaveModel ==
    /\ nn.model
    /\ \E ok \in BOOLEAN :
         IF ok
         THEN /\ saved' = nn.weights
              /\ restore' = [restore EXCEPT !.hasSaved = TRUE,
                                            !.savedVersion = nn.modelVersion]
         ELSE UNCHANGED <<saved, restore>>
    /\ UNCHANGED <<now, candles, preds, archived, score, nn, trainer, task,
                   predictObs, retrainLog, trainLog, ens, fxVars, split, risk, boot>>

\* part_001:11-15, 267-283  the process restarts: what was in flight is gone,
\* a NeuralNetwork is constructed (no model, version 1) and loadModel assigns
\* this.model the stored model, or creates a new one when there is none or
\* the load throws
Restart ==
    /\ ~restore.made
    /\ \E ok \in BOOLEAN :
         LET loaded == ok /\ restore.hasSaved
             fresh == [NewNeuralNetwork EXCEPT
                         !.model = TRUE,
                         !.weights = IF loaded THEN saved ELSE 0]
         IN  /\ nn' = fresh
             /\ restore' = [restore EXCEPT !.made = TRUE, !.loaded = loaded,
                                           !.version = fresh.modelVersion]
    /\ task' = [t \in Tasks |-> IdleTask]
    /\ UNCHANGED <<now, candles, preds, archived, score, saved, trainer,
                   predictObs, retrainLog, trainLog, ens, fxVars, split, risk, boot>>

(* ----------------------------- RiskManager ---------------------------- *)
\* CONFIG.RISK_RULES (part_003:725-731); minConfidence 0.65 in the fixed
\* point of the confidences, minWinRate 0.50 in percent, cooldownAfterLoss
\* 300000 ms
MaxTradesPerDay == 20
MaxConsecutiveLosses == 3
RiskMinConfidence == 65000
MinWinRate == 50
CooldownAfterLoss == 300
\* part_007:101  getRecentPredictions(50)
RecentLimit == 50
\* part_007:117  the win rate is taken over 20 validated predictions and
\* checked from 10 on (part_007:55)
WinRateWindow == 20
WinRateMinCount == 10

\* database.js:250-258  getRecentPredictions(count): the last count records
\* in id order, reversed, so the newest comes first
RECURSIVE Reverse(_)
Reverse(list) ==
    IF list = <<>> THEN <<>> ELSE Reverse(Tail(list)) \o <<Head(list)>>
GetRecentPredictions(book, count) == Reverse(LastN(book, count))

\* part_007:108-114  the loop over validatedRecent from its last index down
\* to 0: a prediction with wasCorrect false is counted, one with wasCorrect
\* true ends the loop
RECURSIVE CountLosses(_, _)
CountLosses(validatedRecent, i) ==
    IF i < 1 THEN 0
    ELSE IF validatedRecent[i].wasCorrect = "false"
         THEN 1 + CountLosses(validatedRecent, i - 1)
    ELSE IF validatedRecent[i].wasCorrect = "true" THEN 0
    ELSE CountLosses(validatedRecent, i - 1)

\* database.js:349-356  getStats(date): the record of the date or undefined
GetStats(stats, date) ==
    IF \E r \in stats : r.date = date
    THEN [found |-> TRUE, totalPredictions |-> (CHOOSE r \in stats : r.date = date).totalPredictions]
    ELSE [found |-> FALSE, totalPredictions |-> 0]

\* the calendar day of a time
DayOf(time) == time \div DayLength

\* part_007:96-131  getTodayStats
GetTodayStats(book, stats, time) ==
    LET todayStats == GetStats(stats, DayOf(time))
        recentPredictions == GetRecentPredictions(book, RecentLimit)
        validatedRecent == SelectSeq(recentPredictions, LAMBDA p : p.validated)
        losses == SelectSeq(validatedRecent, LAMBDA p : p.wasCorrect = "false")
        last20Validated == SubSeq(validatedRecent, 1,
                                  Min(WinRateWindow, Len(validatedRecent)))
        recentCorrect ==
            Len(SelectSeq(last20Validated, LAMBDA p : p.wasCorrect = "true"))
    IN  [todayCount |-> IF todayStats.found THEN todayStats.totalPredictions ELSE 0,
         consecutiveLosses |-> CountLosses(validatedRecent, Len(validatedRecent)),
         lastLossTime |-> IF losses = <<>> THEN 0
                          ELSE losses[1].validationTimestamp,
         recentCorrect |-> recentCorrect,
         recentCount |-> Len(last20Validated)]

\* part_007:34-42  check 2
TooManyLosses(stats) == stats.consecutiveLosses >= MaxConsecutiveLosses

\* part_007:18-91  shouldAllowTrade: the five checks, each TRUE when passed;
\* recentWinRate < minWinRate is recentCorrect / recentCount < 0.5, and 0 < 0.5
\* when there is none
ShouldAllowTrade(prediction, book, stats, time) ==
    LET st == GetTodayStats(book, stats, time)
        checks ==
            [dailyLimit |-> ~(st.todayCount >= MaxTradesPerDay),
             consecutiveLosses |-> ~TooManyLosses(st),
             confidence |-> ~(prediction.confidence < RiskMinConfidence),
             winRate |-> ~(st.recentCorrect * 100 < MinWinRate * st.recentCount
                           /\ st.recentCount >= WinRateMinCount),
             cooldown |-> ~(time - st.lastLossTime < CooldownAfterLoss
                            /\ st.lastLossTime > 0)]
    IN  [allowed |-> \A c \in DOMAIN checks : checks[c],
         checks |-> checks, stats |-> st]

\* part_004:432, 439  the two tests a prediction passes before it is stored
StoreAny(prediction, riskCheck) == TRUE
MayStore(prediction, riskCheck) ==
    ~prediction.isNull /\ prediction.meetsThreshold /\ riskCheck.allowed

\* the results makePrediction can hand to handleCandlesUpdate: null, or a
\* prediction with its flag and its confidence, which the AI analysis may
\* have changed after the flag was set (part_004:476-483); the direction
\* plays no part in what follows
NullPrediction ==
    [isNull |-> TRUE, prediction |-> "null", confidence |-> 0,
     meetsThreshold |-> FALSE]
PredictionResults ==
    {NullPrediction} \cup
    [isNull : {FALSE}, prediction : {"UP"}, confidence : {60000, 70000},
     meetsThreshold : BOOLEAN]

NoCheck ==
    ShouldAllowTrade(NullPrediction, <<>>, {}, 0)
NoRisk ==
    [book |-> <<>>, stats |-> {},
     last |-> [made |-> FALSE, enough |-> FALSE, prediction |-> NullPrediction,
               asked |-> FALSE, check |-> NoCheck, stored |-> FALSE]]

\* the predictions stored on the day of a time
StoredOn(book, time) ==
    SelectSeq(book, LAMBDA p : DayOf(p.timestamp) = DayOf(time))

\* part_004:424-453, 506-523  handleCandlesUpdate: the candles are stored;
\* with 20 candles or more a prediction is made, and one that is there and
\* meets the threshold goes to the risk manager; when the trade is allowed
\* the notification is shown and the prediction is stored (db.add appends
\* the record). No part of the agent writes the 'stats' store.
HandleCandlesUpdate ==
    /\ Len(StoredOn(risk.book, now)) < MaxStored
    /\ \E enough \in BOOLEAN, prediction \in PredictionResults :
         LET asked == enough /\ ~prediction.isNull /\ prediction.meetsThreshold
             riskCheck == IF asked
                          THEN ShouldAllowTrade(prediction, risk.book,
                                                risk.stats, now)
                          ELSE NoCheck
             stored == enough /\ MayStore(prediction, riskCheck)
         IN  /\ candles' = PutCandle([timestamp |-> now, close |-> 1])
             /\ risk' = [book |-> IF stored
                                  THEN Append(risk.book,
                                         NewPrediction(now, prediction.prediction))
                                  ELSE risk.book,
                         stats |-> risk.stats,
                         last |-> [made |-> TRUE, enough |-> enough,
                                   prediction |-> prediction, asked |-> asked,
                                   check |-> riskCheck, stored |-> stored]]
    /\ UNCHANGED <<now, preds, archived, score, nn, saved, trainer, task,
                   predictObs, retrainLog, trainLog, ens, fxVars, split,
                   restore, boot>>

\* the records the prediction store may hold at the start: made the day
\* before and not validated, validated as correct, or validated as wrong
OlderPredictions ==
    LET made == NewPrediction(T0 - DayLength, "UP")
        validatedAs(wasCorrect, outcome) ==
            [made EXCEPT !.validated = TRUE, !.wasCorrect = wasCorrect,
                         !.actualOutcome = outcome,
                         !.validationTimestamp = T0 - DayLength + VALIDATION_DELAY]
    IN  {made, validatedAs("true", "UP"), validatedAs("false", "DOWN")}
Books == UNION {[1..n -> OlderPredictions] : n \in 0..MaxBook}

(* -------------------------- TradingAIAgent.init ------------------------ *)
\* the events that call init: onInstalled, onStartup and CONTENT_READY
\* messages (part_004:566-586)
Callers == 1..MaxInits

\* part_004:336-347  new TradingAIAgent(): not initialized, no component; no
\* init call in flight, no timer
NewAgent ==
    [initialized |-> FALSE, pc |-> [c \in Callers |-> "idle"],
     networks |-> 0, components |-> 0, timers |-> 0]
\* the agent of the other specifications: one init call has run to its end
Booted ==
    [initialized |-> TRUE, pc |-> [c \in Callers |-> "idle"],
     networks |-> 1, components |-> 1, timers |-> 1]

\* part_004:353  the guard of init
AlreadyInitialized == boot.initialized

\* part_004:352-362  an event calls init: an initialized agent returns true;
\* otherwise init awaits database.init()
InitCall(c) ==
    /\ boot.pc[c] = "idle"
    /\ boot' = [boot EXCEPT !.pc[c] = IF AlreadyInitialized THEN "done" ELSE "db"]
    /\ UNCHANGED <<agentVars, ens, fxVars, split, restore, risk>>

\* part_004:362-366  database.init() resolves: a NeuralNetwork is constructed
\* and init awaits loadModel (which catches its errors); or database.init()
\* throws and init returns false
InitDatabase(c) ==
    /\ boot.pc[c] = "db"
    /\ \E ok \in BOOLEAN :
         boot' = IF ok
                 THEN [boot EXCEPT !.pc[c] = "load", !.networks = @ + 1]
                 ELSE [boot EXCEPT !.pc[c] = "done"]
    /\ UNCHANGED <<agentVars, ens, fxVars, split, restore, risk>>

\* part_004:366-371  loadModel returns: the predictor and the Gemini client
\* are constructed and init awaits geminiClient.init()
InitLoaded(c) ==
    /\ boot.pc[c] = "load"
    /\ boot' = [boot EXCEPT !.pc[c] = "gemini"]
    /\ UNCHANGED <<agentVars, ens, fxVars, split, restore, risk>>

\* part_004:371-382, 392-419  geminiClient.init() resolves: the risk manager,
\* the validator and the trainer are constructed, startPeriodicTasks sets the
\* two intervals, and initialized becomes true; or it throws and init returns
\* false
InitFinish(c) ==
    /\ boot.pc[c] = "gemini"
    /\ \E ok \in BOOLEAN :
         boot' = IF ok
                 THEN [boot EXCEPT !.pc[c] = "done", !.initialized = TRUE,
                                   !.components = @ + 1, !.timers = @ + 1]
                 ELSE [boot EXCEPT !.pc[c] = "done"]
    /\ UNCHANGED <<agentVars, ens, fxVars, split, restore, risk>>

\* The agent after init() (part_004:352-382): the components are
\* constructed, the timers run, nothing is in flight.
AgentInit ==
    /\ now = T0
    /\ score = NoScore
    /\ saved = 0
    /\ trainer = NewTrainer
    /\ task = [t \in Tasks |-> IdleTask]
    /\ predictObs = NoPredict
    /\ retrainLog = NoRetrain
    /\ trainLog = TrainReturned("none", FALSE, 1, NewNeuralNetwork, 0)
    /\ ens = NoEns
    /\ fx = NoExtract
    /\ pd = NoRule
    /\ sim = NoSimilarity
    /\ hist = NoMatchCall
    /\ split = NoSplit
    /\ restore = NoRestore
    /\ risk = NoRisk
    /\ boot = Booted

\* The validate -> retrain cycle with a full store: the agent starts with
\* NumPreds predictions just made (too young to be validated while the model
\* runs) and RETRAIN_THRESHOLD validated ones, or one fewer.
Init ==
    /\ AgentInit
    /\ nn = [NewNeuralNetwork EXCEPT !.model = TRUE]
    /\ candles = {}
    /\ preds = [p \in PredIds |-> NewPrediction(T0, "UP")]
    /\ archived \in (RETRAIN_THRESHOLD - 1)..RETRAIN_THRESHOLD

Next ==
    \/ \E t \in Tasks :
         \/ TimerTick(t) \/ VList(t) \/ ShouldRetrain(t)
         \/ ForceRetrain(t) \/ RetrainData(t)
         \/ FitStep(t) \/ FitFail(t) \/ FitDone(t)
         \/ RetrainEval(t) \/ RetrainSave(t)
    \/ Tick

Spec == Init /\ [][Next]_vars

\* The validation passes on a young store: the agent starts with NumPreds
\* unvalidated predictions, made VALIDATION_DELAY ago and in the minutes after,
\* and no validated ones, so that shouldRetrain stays below its threshold; the
\* candle store may hold the candles of the minutes the predictions were made.
InitValidator ==
    /\ AgentInit
    /\ nn = [NewNeuralNetwork EXCEPT !.model = TRUE]
    /\ \E S \in SUBSET OldTimes : \E f \in [S -> Closes] :
         candles = {[timestamp |-> ts, close |-> f[ts]] : ts \in S}
    /\ \E d \in [PredIds -> {"UP", "DOWN"}] :
         preds = [p \in PredIds |-> NewPrediction(PredTime(p), d[p])]
    /\ archived = 0

NextValidator ==
    \/ \E t \in Tasks :
         \/ TimerTick(t) \/ VList(t) \/ VCandles1(t) \/ VCandles2(t)
         \/ VUpdate(t) \/ VScoreGet(t) \/ VScorePut(t)
         \/ ShouldRetrain(t)
    \/ Tick
    \/ StoreCandles

SpecValidator == InitValidator /\ [][NextValidator]_vars

\* The validation of predictions whose minute has neighbours in the store:
\* the candle store may hold the candle of the minute of each prediction, of
\* the minute before and of the minute after (the watched chart delivers one
\* candle a minute), and the candle of the minute the validation looks at.
WindowTimes ==
    {PredTime(p) + k * CandleWindow : p \in PredIds, k \in {-1, 0, 1}} \cup {T0}
InitOutcome ==
    /\ AgentInit
    /\ nn = [NewNeuralNetwork EXCEPT !.model = TRUE]
    /\ \E S \in SUBSET WindowTimes : \E f \in [S -> Closes] :
         candles = {[timestamp |-> ts, close |-> f[ts]] : ts \in S}
    /\ \E d \in [PredIds -> {"UP", "DOWN"}] :
         preds = [p \in PredIds |-> NewPrediction(PredTime(p), d[p])]
    /\ archived = 0

NextOutcome ==
    \E t \in Tasks :
        \/ TimerTick(t) \/ VList(t) \/ VCandles1(t) \/ VCandles2(t)
        \/ VUpdate(t) \/ VScoreGet(t) \/ VScorePut(t)
        \/ ShouldRetrain(t)

SpecOutcome == InitOutcome /\ [][NextOutcome]_vars

\* A NeuralNetwork instance of its own (part_001:11-15) and the
\* clients of the exported class, which call train and predict as they like.
InitNN ==
    /\ AgentInit
    /\ nn = NewNeuralNetwork
    /\ candles = {}
    /\ preds = [p \in PredIds |-> NewPrediction(T0, "UP")]
    /\ archived = 0

NextNN ==
    \/ \E t \in Tasks : TrainClient(t) \/ FitStep(t) \/ FitFail(t) \/ FitDone(t)
    \/ Predict

SpecNN == InitNN /\ [][NextNN]_vars

\* The combiner on its own: every call is made on inputs of the sets above.
InitEnsemble == InitNN

NextEnsemble == Combine

SpecEnsemble == InitEnsemble /\ [][NextEnsemble]_vars

\* The feature extractor and the similarity of feature sets on their own; a
\* behaviour is one extraction and one comparison.
InitFeatures == InitNN

NextFeatures == Extract \/ Similarity

SpecFeatures == InitFeatures /\ [][NextFeatures]_vars

\* The rules of the pattern detector on their own; a behaviour is one call.
InitPatterns == InitNN

NextPatterns == CallSingleRule \/ CallStarRule

SpecPatterns == InitPatterns /\ [][NextPatterns]_vars

\* The prediction from matches on its own; a behaviour is one call.
InitMatches == InitNN

NextMatches == PredictFromMatches

SpecMatches == InitMatches /\ [][NextMatches]_vars

\* A NeuralNetwork instance that is trained, saved and, after a restart of
\* the process, loaded into a new instance.
InitRestart == InitNN
NextRestart ==
    \/ \E t \in Tasks : TrainClient(t) \/ FitStep(t) \/ FitFail(t) \/ FitDone(t)
    \/ SaveModel
    \/ Restart
SpecRestart == InitRestart /\ [][NextRestart]_vars

\* The agent receives candle windows and the risk manager decides on the
\* predictions made from them; the prediction store holds some older
\* predictions.
InitRisk ==
    /\ now = T0 /\ score = NoScore /\ saved = 0 /\ trainer = NewTrainer
    /\ task = [t \in Tasks |-> IdleTask]
    /\ predictObs = NoPredict /\ retrainLog = NoRetrain
    /\ trainLog = TrainReturned("none", FALSE, 1, NewNeuralNetwork, 0)
    /\ ens = NoEns /\ fx = NoExtract /\ pd = NoRule /\ sim = NoSimilarity
    /\ hist = NoMatchCall /\ split = NoSplit /\ restore = NoRestore
    /\ boot = Booted
    /\ nn = [NewNeuralNetwork EXCEPT !.model = TRUE]
    /\ candles = {}
    /\ preds = [p \in PredIds |-> NewPrediction(T0, "UP")]
    /\ archived = 0
    /\ \E book \in Books : risk = [NoRisk EXCEPT !.book = book]
NextRisk == HandleCandlesUpdate
SpecRisk == InitRisk /\ [][NextRisk]_vars

\* The service worker starts: the agent is constructed and the events call
\* init.
InitBoot ==
    /\ now = T0 /\ score = NoScore /\ saved = 0 /\ trainer = NewTrainer
    /\ task = [t \in Tasks |-> IdleTask]
    /\ predictObs = NoPredict /\ retrainLog = NoRetrain
    /\ trainLog = TrainReturned("none", FALSE, 1, NewNeuralNetwork, 0)
    /\ ens = NoEns /\ fx = NoExtract /\ pd = NoRule /\ sim = NoSimilarity
    /\ hist = NoMatchCall /\ split = NoSplit /\ restore = NoRestore
    /\ risk = NoRisk
    /\ nn = NewNeuralNetwork
    /\ candles = {}
    /\ preds = [p \in PredIds |-> NewPrediction(T0, "UP")]
    /\ archived = 0
    /\ boot = NewAgent
NextBoot ==
    \E c \in Callers :
        InitCall(c) \/ InitDatabase(c) \/ InitLoaded(c) \/ InitFinish(c)
SpecBoot == InitBoot /\ [][NextBoot]_vars

\* NeuralNetwork.splitData on data sets of up to MaxSamples pairs.
InitSplit == InitNN
NextSplit == SplitTwice
SpecSplit == InitSplit /\ [][NextSplit]_vars

(* ------------------------------ properties ----------------------------- *)
\* C1: a predict call made while a train call is in flight computes its
\* result from the parameters as they were before that training run started
\* or as they are after its last update, never from parameters in between.
\* (SpecNN)
C1_PredictSeesWholeModel ==
    predictObs.during =>
        predictObs.w \in {predictObs.base, predictObs.base + FitSteps}

\* the two candle windows of a prediction, as the claim C2 states them
InWindow(c, t) ==
    /\ t - CandleWindow <= c.timestamp
    /\ c.timestamp <= t + CandleWindow
HasResolutionCandles(p) ==
    /\ \E c \in candles : InWindow(c, preds[p].timestamp + VALIDATION_DELAY)
    /\ \E c \in candles : InWindow(c, preds[p].timestamp)

\* C2: a prediction is marked validated, and a pattern score is written for
\* it, only when the candle store holds a candle within one minute of
\* predictionTime + delay and a candle within one minute of predictionTime;
\* without them the prediction stays validated = false, and so stays among
\* the unvalidated predictions the next pass reads. (SpecValidator)
C2_NoCandleNoValidation ==
    /\ \A p \in PredIds :
         ~HasResolutionCandles(p) =>
            /\ ~preds[p].validated
            /\ preds[p] = NewPrediction(preds[p].timestamp, preds[p].prediction)
            /\ p \in {GetUnvalidatedPredictions[i] :
                        i \in 1..Len(GetUnvalidatedPredictions)}
    /\ \A t \in Tasks :
         task[t].pc \in {"v_upd", "v_sget", "v_sput"} =>
            HasResolutionCandles(task[t].cur)
    /\ score.exists => \E p \in PredIds : HasResolutionCandles(p)

\* C2 witness: a pass is over that examined an old enough prediction, found a
\* candle window empty and validated nothing
C2_Witness ==
    \E t \in Tasks : \E p \in PredIds :
        /\ task[t].pc = "s_data"
        /\ task[t].count = 0
        /\ task[t].vnow - preds[p].timestamp >= VALIDATION_DELAY
        /\ ~HasResolutionCandles(p)
        /\ ~preds[p].validated

\* C3: once validated = true has been written for a prediction, no later
\* write changes that record. (SpecValidator)
C3_ValidatedOnce ==
    [][\A p \in PredIds : preds[p].validated => preds'[p] = preds[p]]_vars

\* C4: at most one execution of the periodic validation cycle is under way.
\* (Spec)
C4_NoOverlappingCycles ==
    Cardinality({t \in Tasks : task[t].kind = "cycle"}) <= 1

\* C5: at most one fit is in flight on the instance, and a train call made
\* during a training run returns null, leaves modelVersion as it is, leaves
\* the in-progress flag set and starts no fit. (SpecNN)
C5_TrainBusy ==
    /\ Cardinality(Fitting) <= 1
    /\ trainLog.busy =>
         /\ trainLog.ret = "null"
         /\ ~trainLog.versionChanged
         /\ trainLog.flagAfter
         /\ trainLog.fits = 1

\* C5 witness: a train call was turned away while a fit is in flight
C5_Witness == trainLog.busy /\ Fitting # {}

\* C6: at most one retrain is executing, and a retrain invoked during another
\* returns false and changes neither lastTrainingTime nor the model. (Spec)
C6_RetrainBusy ==
    /\ Cardinality(Retraining) <= 1
    /\ retrainLog.busy =>
         /\ retrainLog.ret = "false"
         /\ ~retrainLog.lttChanged
         /\ ~retrainLog.paramsChanged
         /\ ~retrainLog.versionChanged
         /\ ~retrainLog.flagCleared

\* C6 witness: a retrain was turned away while another is executing
C6_Witness == retrainLog.busy /\ Retraining # {}

\* C7: when a step of retrain failed (the data, the training, the evaluation
\* or saveModel), retrain reports failure and lastTrainingTime keeps its
\* value. (Spec)
C7_LastTrainingTimeOnFullSuccess ==
    retrainLog.failed # "none" =>
        retrainLog.ret = "false" /\ ~retrainLog.lttChanged

\* C8: when retrain reports failure, the model's parameters and modelVersion
\* are those of the call, and the call that ran has cleared the in-progress
\* flag. (Spec)
C8_FailedRetrainKeepsModel ==
    retrainLog.ret = "false" =>
        /\ ~retrainLog.paramsChanged
        /\ ~retrainLog.versionChanged
        /\ retrainLog.busy \/ retrainLog.flagCleared

\* C9: with exactly one source having a prediction, the output carries that
\* source's prediction and confidence unchanged, tagged ml_only or
\* historical_only; with neither, the output is method none, prediction null,
\* confidence 0. (SpecEnsemble)
C9_SingleSource ==
    ens.called =>
        LET h == ens.historical
            m == ens.ml
            o == ens.out
        IN  /\ h.prediction = "null" /\ m.prediction # "null" =>
                /\ o.method = "ml_only"
                /\ o.prediction = m.prediction
                /\ o.confidence = m.confidence
            /\ h.prediction # "null" /\ m.prediction = "null" =>
                /\ o.method = "historical_only"
                /\ o.prediction = h.prediction
                /\ o.confidence = h.confidence
            /\ h.prediction = "null" /\ m.prediction = "null" =>
                /\ o.method = "none"
                /\ o.prediction = "null"
                /\ o.confidence = 0

\* C9 witness: a call with the neural source alone, its confidence not a
\* multiple of 0.001
C9_Witness ==
    /\ ens.called
    /\ ens.historical.prediction = "null"
    /\ ens.ml.prediction # "null"
    /\ ens.ml.confidence # Round3(ens.ml.confidence)
    /\ ens.out.method = "ml_only"

\* C10: every output with a direction carries the meetsThreshold flag, and
\* the flag is true exactly when the adjusted confidence is at least
\* MIN_CONFIDENCE_THRESHOLD. (SpecEnsemble)
C10_MeetsThresholdFlag ==
    ens.called /\ ens.out.prediction # "null" =>
        /\ "meetsThreshold" \in ens.out.has
        /\ ens.out.meetsThreshold <=> ens.out.adjusted >= MIN_CONFIDENCE_THRESHOLD
\* the raw confidences applyPatternAdjustments is tried on, 0 to 1 in steps
\* of 0.05
RawConfidences == {k * PatternBonus : k \in 0..(One \div PatternBonus)}

\* C11: with both sources usable and a strong bullish and a strong bearish
\* pattern both in the pattern list, the adjusted confidence is strictly less
\* than the raw confidence, before rounding and as reported. (SpecEnsemble)
C11_ConflictLowersConfidence ==
    /\ ens.called
    /\ ens.out.method = "ensemble"
    /\ ens.patterns \cap StrongBullish # {}
    /\ ens.patterns \cap StrongBearish # {}
    => /\ ens.out.adjusted < ens.out.raw
       /\ ens.out.confidence < ens.out.rawConfidence

\* C11 witness: an ensemble output made with conflicting strong patterns
C11_Witness ==
    /\ ens.called
    /\ ens.out.method = "ensemble"
    /\ {"bullish_engulfing", "bearish_engulfing"} \subseteq ens.patterns
    /\ ens.out.adjusted = ens.out.raw - ConflictPenalty

\* C12: applyPatternAdjustments returns a value in [0, 1] for every raw
\* confidence and every pattern list, so the adjusted confidence of an
\* ensemble output, before rounding and as reported, is in [0, 1].
\* (SpecEnsemble)
C12_AdjustedInUnitInterval ==
    /\ \A c \in RawConfidences : \A ps \in PatternSets :
         /\ 0 <= ApplyPatternAdjustments(c, ps)
         /\ ApplyPatternAdjustments(c, ps) <= One
    /\ ens.called /\ ens.out.method = "ensemble" =>
         /\ 0 <= ens.out.adjusted /\ ens.out.adjusted <= One
         /\ 0 <= ens.out.confidence /\ ens.out.confidence <= One

\* C12 witness: an ensemble output whose raw confidence with the pattern
\* bonus exceeds 1 and was clamped
C12_Witness ==
    /\ ens.called
    /\ ens.out.method = "ensemble"
    /\ ens.patterns \cap StrongBullish # {}
    /\ ens.patterns \cap StrongBearish = {}
    /\ ens.out.raw + PatternBonus > One
    /\ ens.out.adjusted = One

\* the combined score of the side the output predicts
WinningScore(o) == Max(o.scores.up, o.scores.down)

\* the weighted sums and the direction of an ensemble output
WeightedScores(h, m, o) ==
    /\ 10 * o.scores.up = h.up * WeightHistorical + m.up * WeightML
    /\ 10 * o.scores.down = h.down * WeightHistorical + m.down * WeightML
    /\ o.scores.up > o.scores.down => o.prediction = "UP"
    /\ o.scores.down > o.scores.up => o.prediction = "DOWN"
    /\ o.raw = WinningScore(o)

\* C13 as the spec states it: with both sources usable the combined scores
\* are the weighted sums, the direction is the side with the higher score and
\* the raw confidence the output carries equals that side's combined score.
\* (SpecEnsemble)
C13_RawConfidenceIsScore ==
    ens.called /\ ens.out.method = "ensemble" =>
        /\ WeightedScores(ens.historical, ens.ml, ens.out)
        /\ ens.out.rawConfidence = WinningScore(ens.out)

\* C13 amended: the combined scores are the weighted sums, the direction is
\* the side with the higher score (DOWN when they are equal), the raw
\* confidence computed equals that side's score, and the rawConfidence the
\* output carries is that score rounded to three decimals; neural {up 0.7,
\* down 0.3} and historical {up 0.4, down 0.6} give UP with 0.58.
\* (SpecEnsemble)
C13_WeightedScores ==
    ens.called /\ ens.out.method = "ensemble" =>
        /\ WeightedScores(ens.historical, ens.ml, ens.out)
        /\ ens.out.scores.up = ens.out.scores.down => ens.out.prediction = "DOWN"
        /\ ens.out.rawConfidence = Round3(WinningScore(ens.out))
        /\ ens.historical.up = 40000 /\ ens.ml.up = 70000 /\ ens.ml.down = 30000 =>
             /\ ens.out.prediction = "UP"
             /\ ens.out.rawConfidence = 58000

\* C13 witness: an ensemble output whose winning score is not a multiple of
\* 0.001
C13_Witness ==
    /\ ens.called
    /\ ens.out.method = "ensemble"
    /\ ens.out.raw # Round3(ens.out.raw)
    /\ ens.out.scores.up > ens.out.scores.down
\* C14: for a window that is missing or has fewer than 20 candles,
\* extractFeatures returns the insufficient-data result and no field of a
\* feature set. (SpecFeatures)
C14_InsufficientDataIsNull ==
    fx.called /\ (~fx.window.present \/ Len(fx.window.list) < MIN_CANDLES) =>
        fx.out = NullFeatures

\* C14 witness: a window of 19 candles was given and null returned
C14_Witness ==
    /\ fx.called
    /\ fx.window.present
    /\ Len(fx.window.list) = MIN_CANDLES - 1
    /\ fx.out.isNull

\* the candles a feature set was extracted from, newest last
Last20 == LastN(fx.window.list, MIN_CANDLES)

\* the length of the maximal run of candles of direction dir that ends at the
\* newest candle
RunLength(cs, dir) ==
    CHOOSE k \in 0..Len(cs) :
        /\ \A i \in (Len(cs) - k + 1)..Len(cs) : BodyDirection(cs[i]) = dir
        /\ k < Len(cs) => BodyDirection(cs[Len(cs) - k]) # dir

\* C15: consecutiveBullish is the length of the maximal run of bullish
\* candles ending at the newest candle of the last 20, consecutiveBearish
\* the same for bearish candles, and at most one of the two is not zero.
\* (SpecFeatures)
C15_ConsecutiveRuns ==
    fx.called /\ ~fx.out.isNull =>
        /\ fx.out.consecutiveBullish = RunLength(Last20, 1)
        /\ fx.out.consecutiveBearish = RunLength(Last20, -1)
        /\ fx.out.consecutiveBullish = 0 \/ fx.out.consecutiveBearish = 0

\* C16: for a candle with high = low, isHammer, isInvertedHammer and isDoji
\* answer false, isMorningStar and isEveningStar do not match with it as the
\* middle candle, and no rule divides by its range. (SpecPatterns)
C16_ZeroRangeNoMatch ==
    pd.called /\ pd.candles[pd.ratioOf].high = pd.candles[pd.ratioOf].low =>
        /\ ~pd.result.match
        /\ ~pd.result.rangeDiv

\* C16 witness: isMorningStar was asked about a bearish candle, a candle
\* with high = low and open = close, and a bullish candle, and did not match
C16_Witness ==
    /\ pd.called
    /\ pd.rule = "isMorningStar"
    /\ pd.candles[1].close < pd.candles[1].open
    /\ pd.candles[2].high = pd.candles[2].low
    /\ pd.candles[2].open = pd.candles[2].close
    /\ pd.candles[3].close > pd.candles[3].open
    /\ ~pd.result.match

\* C17: the similarity of a feature set of the extractor, with its pattern
\* tags, to itself is 1. (SpecFeatures)
C17_SimilarityReflexive ==
    sim.called /\ sim.features1 = sim.features2 => sim.similarity = Unit

\* C17 witness: a feature set without tags and one with tags were each
\* compared with themselves
C17_Witness ==
    /\ sim.called
    /\ sim.features1 = sim.features2
    /\ sim.features1.patterns = {}
    /\ Len(sim.features1.bodyRatios) = MIN_CANDLES
    /\ sim.similarity = Unit

\* the summed similarity of the matches of a list that have the outcome
WeightOf(ms, outcome) ==
    Sum([i \in 1..Len(ms) |->
            IF ms[i].outcome = outcome THEN ms[i].similarity ELSE 0])

\* C18: matches with a null outcome are skipped; the predicted class is the
\* outcome with the larger summed similarity and the confidence is that sum
\* divided by the total of the counted matches (0.9 UP and 0.3 DOWN give UP
\* with 0.75); with a total of zero the result is prediction null with
\* confidence 0. (SpecMatches)
C18_PredictFromMatches ==
    hist.called =>
        LET up == WeightOf(hist.matches, "UP")
            down == WeightOf(hist.matches, "DOWN")
            total == up + down
            o == hist.out
        IN  /\ total = 0 => o.prediction = "null" /\ o.confidence = 0
            /\ total > 0 =>
                 /\ up > down => o.prediction = "UP"
                 /\ down > up => o.prediction = "DOWN"
                 /\ o.confidence * total <= Max(up, down) * One
                 /\ Max(up, down) * One < (o.confidence + 1) * total
            /\ up = 900 /\ down = 300 =>
                 o.prediction = "UP" /\ o.confidence = 75000

\* C18 witness: an UP match at 0.9, a match without outcome and a DOWN match
\* at 0.3
C18_Witness ==
    /\ hist.called
    /\ hist.matches = <<[similarity |-> 900, outcome |-> "UP"],
                        [similarity |-> 750, outcome |-> "null"],
                        [similarity |-> 300, outcome |-> "DOWN"]>>
    /\ hist.out.prediction = "UP"
    /\ hist.out.confidence = 75000

\* the stored candles nearest in time to t among those in the window of t
NearestCandles(t) ==
    LET cs == GetCandles(t - CandleWindow, t + CandleWindow)
    IN  {c \in cs : \A d \in cs : Abs(c.timestamp - t) <= Abs(d.timestamp - t)}

\* the outcomes validatePrediction is specified to decide: UP iff the close it
\* took from the candle nearest to predictionTime + delay exceeds the close of
\* a stored candle nearest to predictionTime (two candles can be equally near)
NearestOutcomes(r) ==
    {IF r.close > c.close THEN "UP" ELSE "DOWN" :
        c \in NearestCandles(preds[r.cur].timestamp)}

\* C19: when validatePrediction has decided the outcome of a prediction made
\* at t, actualOutcome is UP iff the close of the candle nearest to t + delay
\* exceeds the close of the stored candle nearest to t, otherwise DOWN, and
\* wasCorrect tells whether actualOutcome is the predicted direction.
\* (SpecOutcome)
C19_OutcomeFromNearestCandles ==
    \A t \in Tasks :
        task[t].pc = "v_upd" =>
            /\ task[t].outcome \in NearestOutcomes(task[t])
            /\ task[t].wasCorrect = "true" <=>
                   task[t].outcome = preds[task[t].cur].prediction


\* the validated predictions inside the lookback whose validationTimestamp is
\* later than ltt; the archived ones were validated before the agent started
ValidatedSince(ltt) ==
    Cardinality({p \in PredIds :
                   /\ preds[p].validated
                   /\ preds[p].timestamp >= now - LookbackDays * DayLength
                   /\ preds[p].validationTimestamp > ltt})
    + (IF ltt < T0 THEN archived ELSE 0)

\* C20: shouldRetrain returns true exactly when at least RETRAIN_THRESHOLD
\* predictions inside the lookback were validated after lastTrainingTime: the
\* periodic task that awaited it calls retrain exactly then (the call returns
\* at once during a retrain), so that after a successful retrain no check
\* leads to a retrain until that many further predictions are validated.
\* (Spec)
C20_ShouldRetrain ==
    [][\A t \in Tasks :
          task[t].pc = "s_data" /\ task'[t].pc # "s_data" =>
              LET enough ==
                      ValidatedSince(trainer.lastTrainingTime) >= RETRAIN_THRESHOLD
              IN  /\ task'[t].pc = "r_data" => enough
                  /\ retrainLog' # retrainLog => enough
                  /\ enough => task'[t].pc = "r_data" \/ trainer.isTraining]_vars

\* C20 witness: shouldRetrain was called after a successful retrain, the
\* store holding RETRAIN_THRESHOLD validated predictions inside the lookback,
\* all validated before that retrain
C20_Witness ==
    /\ retrainLog.ret = "true"
    /\ trainer.lastTrainingTime >= T0
    /\ ~trainer.isTraining
    /\ GetValidatedCount(LookbackDays) >= RETRAIN_THRESHOLD
    /\ \E t \in Tasks : task[t].pc = "s_data"


C22_ArrayHasInputWidth ==
    fx.called /\ ~fx.out.isNull => Len(fx.array) = MODEL_INPUT_FEATURES


\* C23: two splitData calls with the same data and the same ratio return
\* the same train set and the same test set. (SpecSplit)
C23_SplitReproducible ==
    split.called => split.first = split.second


\* C24: a model saved with saveModel and loaded with loadModel by a new
\* NeuralNetwork instance has the version number that was current when it
\* was saved. (SpecRestart)
C24_VersionRestored ==
    restore.made /\ restore.loaded => restore.version = restore.savedVersion


\* C25: the prediction store grows only by a prediction whose meetsThreshold
\* flag is true and for which shouldAllowTrade returned allowed = true; a
\* prediction below the threshold or denied by the risk manager is not
\* stored. (SpecRisk)
C25_StoredOnlyIfAllowed ==
    [][risk'.book # risk.book =>
          /\ risk'.last.made /\ risk'.last.asked
          /\ risk'.last.prediction.meetsThreshold
          /\ risk'.last.check.allowed
          /\ Len(risk'.book) = Len(risk.book) + 1
          /\ SubSeq(risk'.book, 1, Len(risk.book)) = risk.book]_vars

\* C25 witness: a prediction with the flag set went to the risk manager, was
\* denied for its confidence alone, and the store has no record of it
C25_Witness ==
    /\ risk.last.made /\ risk.last.enough
    /\ risk.last.prediction.meetsThreshold
    /\ risk.last.asked
    /\ ~risk.last.check.allowed
    /\ ~risk.last.check.checks.confidence
    /\ StoredOn(risk.book, now) = <<>>

\* the predictions validated as wrong since the last one validated as
\* correct, from the newest validated prediction of the store backward
RECURSIVE CurrentStreak(_)
CurrentStreak(book) ==
    IF book = <<>> THEN 0
    ELSE LET newest == book[Len(book)]
             older == SubSeq(book, 1, Len(book) - 1)
         IN  IF ~newest.validated THEN CurrentStreak(older)
             ELSE IF newest.wasCorrect = "false" THEN 1 + CurrentStreak(older)
             ELSE 0

\* C27: the consecutiveLosses of getTodayStats is the number of the most
\* recently validated predictions that were wrong, counted from the newest
\* validated prediction backward to the first correct one, and the
\* consecutive-loss check of shouldAllowTrade fails exactly when that streak
\* is at least maxConsecutiveLosses. (SpecRisk)
C27_CurrentLossStreak ==
    [][risk'.last.asked /\ risk'.last # risk.last =>
          /\ risk'.last.check.stats.consecutiveLosses = CurrentStreak(risk.book)
          /\ risk'.last.check.checks.consecutiveLosses
                <=> CurrentStreak(risk.book) < MaxConsecutiveLosses]_vars

\* C28: no more than maxTradesPerDay predictions are stored on one calendar
\* day. (SpecRisk)
C28_DailyLimit ==
    Len(StoredOn(risk.book, now)) <= MaxTradesPerDay


\* C26: whenever no validation is between its update of the prediction and
\* its write of the score, the stored score of the signature has
\* successCount + failureCount = the number of validated predictions of that
\* signature. (SpecValidator)
C26_ScoreCountsValidated ==
    (\A t \in Tasks : task[t].pc \notin {"v_sget", "v_sput"}) =>
        score.successCount + score.failureCount
            = Cardinality({p \in PredIds : preds[p].validated})


\* C29: the record combinePredictions returns, which predict returns, has
\* the direction UP, DOWN or null, whichever method produced it.
\* (SpecEnsemble)
C29_DirectionUpDownOrNull ==
    ens.called => ens.out.prediction \in {"UP", "DOWN", "null"}


\* C30: however the calls of init overlap, the periodic timers are started
\* at most once and one set of components is constructed. (SpecBoot)
C30_InitOnce ==
    /\ boot.timers <= 1
    /\ boot.components <= 1

====
